---- MODULE Spec2Model ----
(***************************************************************************)
(* The resident runtime of service.py (class ResidentModelRuntime): its    *)
(* state lock, its generation lock, the idle watchdog, the lazily loaded   *)
(* LLM handles and the background style-learning task, as one state        *)
(* machine over request threads, the watchdog thread and style tasks.      *)
(*                                                                         *)
(* Time is the pair (time.monotonic(), _last_active) kept as their         *)
(* difference, last_active_age, which is what every comparison of the      *)
(* code reads; the clock advances TickSeconds at a time.                   *)
(*                                                                         *)
(* Spec is the runtime while the service is up; LifecycleSpec adds stop(). *)
(***************************************************************************)
EXTENDS Integers, Sequences, FiniteSets, TLC

\* ------------------------------------------------------------- bounds
NumRequestThreads == 2
MaxStyleTasks == 1
MaxTokens == 2
MaxTimeoutTicks == 1
TickSeconds == 10
\* style rules are numbered 1..MaxRule; the model's answers to the style prompt
\* are runs of BatchLen consecutive rules that start BatchStride rules apart
MaxRule == 22
BatchLen == 7
BatchStride == 5
\* the longest recording, in frames of 10 ms
MaxFrames == 26
\* the segmenter is given up to MaxRuns runs of speech or silence flags, or
\* one stretch of speech of LongSpeech frames
MaxRuns == 3
LongSpeech == 3010
\* the detector is given MaxDetFrames frames, or none
MaxDetFrames == 3

\* ------------------------------------------------- program constants
\* self._style_learning_idle_grace_seconds = 20.0
StyleLearningIdleGrace == 20
\* profile["rules"] = merged[:20]
StyleRuleCap == 20

None == "None"
LLM_REPO == "LLM_REPO"
OTHER_REPO == "OTHER_REPO"
Models == {LLM_REPO, OTHER_REPO}

WD == 0
Req == 1..NumRequestThreads
Style == (NumRequestThreads + 1)..(NumRequestThreads + MaxStyleTasks)
\* the thread that runs the application's lifespan and calls stop()
Main == NumRequestThreads + MaxStyleTasks + 1
Threads == {WD} \cup Req \cup Style \cup {Main}

\* idle_timeout_seconds: int | None, kept as a set of at most one integer
TimeoutChoices == {{}} \cup {{k * TickSeconds} : k \in 1..MaxTimeoutTicks}

Max(a, b) == IF a >= b THEN a ELSE b
\* every comparison against last_active_age has a right-hand side <= AgeCap
AgeCap == Max(StyleLearningIdleGrace, MaxTimeoutTicks * TickSeconds)

NonStreamEntries == {"run_dictate", "run_ask", "run_translate", "run_asr_chunk"}
StreamEntries == {"stream_dictate", "stream_ask", "stream_translate"}
PreparedEntry == "stream_prepared_transcript"
AskEntries == {"run_ask", "stream_ask", PreparedEntry}
GenerateEntries == {"run_dictate", "run_ask", "run_translate"}

VARIABLES
    pc,                   \* position of every thread
    op,                   \* the entry point a request thread is serving
    ntok,                 \* tokens produced so far by a thread's generation call
    loading,              \* model id handed to load() by a thread inside _ensure_llm_loaded
    state_lock,           \* self._lock (RLock): set of its owner
    generation_lock,      \* self._generation_lock (Lock): set of its holder
    llm_model_id,         \* self.llm_model_id
    self_llm_model,       \* self._llm_model / self._llm_tokenizer: id they were loaded for, or None
    llm_model,            \* module-level llm_model / llm_tokenizer cache
    idle_timeout_seconds, \* self.idle_timeout_seconds
    last_active_age,      \* time.monotonic() - self._last_active
    sched_past,           \* style task: time.monotonic() >= scheduled_at + TickSeconds
    advanced,             \* style task: self._last_active > scheduled_at
    newer,                \* style task: self._last_active > scheduled_at + 0.05
    shutdown,             \* self._shutdown.is_set()
    style_rules,          \* "rules" of the file at self.style_profile_path
    merge_at,             \* a style task inside the with block that merges its rules
    maybe_rules,          \* that task's extracted.get("rules")
    profile_rules,        \* that task's profile["rules"], about to be written
    stage,                \* position of a call of _transcribe_audio
    request,              \* its audio_config and the file at audio_path
    signal_size,          \* signal.size
    enhanced,             \* enhanced_signal: its size and the chain that produced it
    stats,                \* the pipeline's stats dict
    vad_flags,            \* vad_flags of the enhanced signal's frames
    segments,             \* segments: the size of each
    index,                \* index of the loop over segments / transcribe_paths, from 1
    transcribe_paths,     \* transcribe_paths / enhancement_result.transcribe_paths
    cleanup_paths,        \* cleanup_paths / enhancement_result.cleanup_paths
    created,              \* files and directories this call has created
    exists,               \* those of them that are on disk
    attempted,            \* those of them unlink() or rmdir() was called on
    transcribed,          \* what transcribe() has turned into text
    pending,              \* how the try block of _transcribe_audio ended
    ffmpeg_path,          \* self._ffmpeg_path is set
    seg_pc,               \* position of a call of _segment_by_vad
    seg_call,             \* its arguments: vad_flags as runs, hangover and pre-roll
    frame_no,             \* frames its loop has taken from zip(frames, vad_flags)
    segmenter,            \* its locals
    idle_from,            \* the first frame after it last left in_segment
    det_pc,               \* position of a call of _detect_speech_frames
    det_call,             \* the request and the process it serves
    detection             \* its locals

runtimeVars == <<pc, op, ntok, loading, state_lock, generation_lock, llm_model_id,
                 self_llm_model, llm_model, idle_timeout_seconds, last_active_age,
                 sched_past, advanced, newer, shutdown>>

profileVars == <<style_rules, merge_at, maybe_rules, profile_rules>>

pipelineVars == <<stage, request, signal_size, enhanced, stats, vad_flags, segments,
                  index, transcribe_paths, cleanup_paths, created, exists, attempted,
                  transcribed, pending, ffmpeg_path>>

segmenterVars == <<seg_pc, seg_call, frame_no, segmenter, idle_from>>

detectorVars == <<det_pc, det_call, detection>>

\* the state outside the runtime's threads and locks
dataVars == <<profileVars, pipelineVars, segmenterVars, detectorVars>>

vars == <<runtimeVars, dataVars>>

modelVars == <<llm_model_id, self_llm_model, llm_model>>
styleVars == <<sched_past, advanced, newer>>

\* ------------------------------------------------------------ helpers

\* faulty variant: the state lock is entered without waiting for its owner
StateLockAcquirableNoWait(lock, t) == TRUE

\* threading.RLock.acquire(): free, or already owned by the caller
StateLockAcquirable(lock, t) == lock = {} \/ lock = {t}

\* faulty variant: generation starts without waiting for the generation lock
AcquireBlockingNoWait(lock) == TRUE

\* threading.Lock.acquire(blocking=True) returns only once the lock is free
AcquireBlocking(lock) == lock = {}

\* faulty variant: the result of the non-blocking acquire is not looked at
AcquireNonBlockingUnchecked(lock) == TRUE

\* threading.Lock.acquire(blocking=False): the value of `acquired`
AcquireNonBlocking(lock) == lock = {}

\* faulty variant: the test of self._llm_model is inverted
ShouldReleaseInverted(timeout, model, elapsed) ==
    /\ timeout # {}
    /\ model = None
    /\ \A k \in timeout : elapsed >= k

\* _watchdog_loop: should_release
ShouldRelease(timeout, model, elapsed) ==
    /\ timeout # {}
    /\ model # None
    /\ \A k \in timeout : elapsed >= k

\* _apply_model_overrides: the new self.llm_model_id
OverrideId(cur, requested) ==
    IF requested # None /\ requested # cur THEN requested ELSE cur

\* _apply_model_overrides: the new self._llm_model
OverrideHandles(cur, requested, handles) ==
    IF requested # None /\ requested # cur THEN None ELSE handles

\* _ensure_llm_loaded: nothing to do, or the module-level cache is reused
NeedsLoad(handles, id, cache) ==
    handles = None /\ ~(id = LLM_REPO /\ cache # None)

\* _ensure_llm_loaded: self._llm_model after the branch that does not call load()
HandlesWithoutLoad(handles, id, cache) ==
    IF handles = None THEN cache ELSE handles

\* health(): the fields of the payload that depend on the model state
HealthReport ==
    [llm_model |-> llm_model_id, llm_loaded |-> self_llm_model # None,
     idle_timeout_seconds |-> idle_timeout_seconds,
     last_active_age_seconds |-> last_active_age]

\* the values `self._last_active > scheduled_at + 0.05` can take for the
\* scheduled tasks once _last_active is set to the present time: true when the
\* clock has advanced a tick since scheduled_at, either value when it has not
\* (the time since scheduled_at is then anything below TickSeconds)
NewerAfterTouch ==
    {f \in [Style -> BOOLEAN] :
        \A s \in Style :
            IF pc[s] # "sleep" THEN f[s] = newer[s]
            ELSE IF sched_past[s] THEN f[s]
            ELSE newer[s] => f[s]}

\* _touch(): self._last_active = time.monotonic()
Touch ==
    /\ last_active_age' = 0
    /\ advanced' = [s \in Style |-> advanced[s] \/ pc[s] = "sleep"]
    /\ newer' \in NewerAfterTouch

WaitPcs == {"search_wait", "gen_wait", "ready"}
LoadPcs == {"search_load", "gen_load", "stream_load", "style_load"}
GenPcs == {"search_gen", "gen", "stream_gen", "style_gen"}

LoadPcOf(p) ==
    CASE p = "search_wait" -> "search_load"
      [] p = "gen_wait" -> "gen_load"
      [] p = "ready" -> "stream_load"
      [] p = "checked" -> "style_load"

GenPcOf(p) ==
    CASE p \in {"search_wait", "search_load"} -> "search_gen"
      [] p \in {"gen_wait", "gen_load"} -> "gen"
      [] p \in {"ready", "stream_load"} -> "stream_gen"
      [] p \in {"checked", "style_load"} -> "style_gen"

\* the two ways a request goes on once its audio is transcribed: generation
\* under the state lock (_run_llm_sync), or a streamed response
FlowOf(entry) == IF entry \in GenerateEntries THEN "run" ELSE "stream"

\* where a request goes once its prompt is assembled
AfterPrompt(flow) == IF flow = "run" THEN "gen_wait" ELSE "ensure"

\* a thread is inside a generation call: between acquiring and releasing
\* self._generation_lock
InGeneration(t) == pc[t] \in LoadPcs \cup GenPcs

\* paths: the request's audio_path, the directory made by mkdtemp, and
\* temp_dir / f"segment-{index:03d}.wav"
AudioPath == <<"audio_path", 0>>
TempDir == <<"temp_dir", 0>>
SegmentPath(i) == <<"segment", i>>

\* stats of the default enhancement_result: {"enabled": False}; the keys the
\* pipeline may add later are None or FALSE while absent
StatsStart ==
    [enabled |-> FALSE, fallback_reason |-> None, v2_backend |-> None,
     v2_error |-> FALSE, segmentation_fallback |-> FALSE,
     segment_write_fallback |-> FALSE]

NoConfig ==
    [present |-> FALSE, enabled |-> FALSE, mode |-> "off",
     enhancement_version |-> "legacy", hangover_ms |-> 0, preroll_ms |-> 0]

NoWav ==
    [suffix_wav |-> TRUE, container |-> "malformed", sample_width |-> 0,
     mono_16k |-> FALSE, samples |-> 0]

NoSignal == [size |-> 0, chain |-> None]

\* no call of _transcribe_audio is under way
NoTranscription ==
    /\ stage = "idle"
    /\ request = [audio_config |-> NoConfig, wav |-> NoWav]
    /\ signal_size = 0
    /\ enhanced = NoSignal
    /\ stats = StatsStart
    /\ vad_flags = <<>>
    /\ segments = <<>>
    /\ index = 1
    /\ transcribe_paths = <<>>
    /\ cleanup_paths = <<>>
    /\ created = {}
    /\ exists = {}
    /\ attempted = {}
    /\ transcribed = <<>>
    /\ pending = None
    /\ ffmpeg_path = FALSE

\* the locals of _segment_by_vad before its loop
SegmenterStart ==
    [in_segment |-> FALSE, speech_run |-> 0, silence_run |-> 0,
     recent_flags |-> <<>>, pre_roll |-> <<>>, current_frames |-> <<>>,
     segments |-> <<>>, pre_roll_hits |-> 0, forced_split_count |-> 0,
     ignored_short_segments |-> 0, adaptive_fast_exit_hits |-> 0]

NoCall == [runs |-> <<>>, anti_cutoff_pause_ms |-> 0, pre_roll_ms |-> 0]

\* no call of _segment_by_vad is under way
NoSegmentation ==
    /\ seg_pc = "idle"
    /\ seg_call = NoCall
    /\ frame_no = 0
    /\ segmenter = SegmenterStart
    /\ idle_from = 1

\* an optional integer: a missing key or None, or int(value)
Absent == <<>>
Some(value) == <<value>>

\* the loop variable `frame` before the loop: rms and peak in dBFS
NoFrame == [rms_db |-> -120, peak_db |-> -120]

\* the locals of _detect_speech_frames before its loop, with the frame it took
\* last, what classified each frame, the calls of is_speech, the frame at which the
\* engine failed (0: none) and the argument of webrtcvad.Vad (Absent: not called)
DetectionStart ==
    [detector |-> None, backend |-> "energy_gate", webrtc_errors |-> 0,
     flags |-> <<>>, frame |-> NoFrame, classified_by |-> <<>>, consulted |-> 0,
     failed_at |-> 0, webrtc_aggressiveness |-> Absent]

NoDetectorCall ==
    [noise_suppression_level |-> "moderate", low_volume_boost |-> "medium",
     aggressiveness |-> Absent, engine |-> "webrtcvad", mode |-> "webrtc",
     enhancement_version |-> "legacy", webrtcvad |-> FALSE, frames |-> 0]

\* no call of _detect_speech_frames is under way
NoDetection ==
    /\ det_pc = "idle"
    /\ det_call = NoDetectorCall
    /\ detection = DetectionStart

\* ---------------------------------------------------------------- Init

Init ==
    /\ pc = [t \in Threads |->
                CASE t = WD -> "sleep"
                  [] t \in Req -> "idle"
                  [] t \in Style -> "free"
                  [] t = Main -> "serving"]
    /\ op = [t \in Req |-> None]
    /\ ntok = [t \in Req \cup Style |-> 0]
    /\ loading = [t \in Req \cup Style |-> None]
    /\ state_lock = {}
    /\ generation_lock = {}
    /\ llm_model_id = LLM_REPO
    /\ self_llm_model = None
    /\ llm_model \in {None, LLM_REPO}
    /\ idle_timeout_seconds \in TimeoutChoices
    /\ last_active_age = 0
    /\ sched_past = [s \in Style |-> FALSE]
    /\ advanced = [s \in Style |-> FALSE]
    /\ newer = [s \in Style |-> FALSE]
    /\ shutdown = FALSE
    /\ style_rules = <<>>
    /\ merge_at = "idle"
    /\ maybe_rules = <<>>
    /\ profile_rules = <<>>
    /\ NoTranscription
    /\ NoSegmentation
    /\ NoDetection

\* ------------------------------------------------------- request flows

\* run_dictate / run_ask / run_translate / run_asr_chunk / stream_dictate /
\* stream_ask / stream_translate up to the call of _transcribe_audio:
\* with self._lock: self._apply_model_overrides(...); self._touch()
BeginRequest(t, entry, requested) ==
    /\ pc[t] = "idle"
    /\ StateLockAcquirable(state_lock, t)
    /\ state_lock' = {t}
    /\ llm_model_id' = OverrideId(llm_model_id, requested)
    /\ self_llm_model' = OverrideHandles(llm_model_id, requested, self_llm_model)
    /\ Touch
    /\ pc' = [pc EXCEPT ![t] = "transcribe"]
    /\ op' = [op EXCEPT ![t] = entry]
    /\ UNCHANGED <<ntok, loading, generation_lock, llm_model,
                   idle_timeout_seconds, sched_past>>
    /\ UNCHANGED <<shutdown, dataVars>>

run_dictate(t) == \E m \in Models \cup {None} : BeginRequest(t, "run_dictate", m)
run_ask(t) == \E m \in Models \cup {None} : BeginRequest(t, "run_ask", m)
run_translate(t) == \E m \in Models \cup {None} : BeginRequest(t, "run_translate", m)
run_asr_chunk(t) == \E m \in Models \cup {None} : BeginRequest(t, "run_asr_chunk", m)
stream_dictate(t) == \E m \in Models \cup {None} : BeginRequest(t, "stream_dictate", m)
stream_ask(t) == \E m \in Models \cup {None} : BeginRequest(t, "stream_ask", m)
stream_translate(t) == \E m \in Models \cup {None} : BeginRequest(t, "stream_translate", m)

\* stream_prepared_transcript: the generator's first step, up to prompt assembly
\* (no audio pipeline); raw_mode = "ask" with web search goes through _decide_search
stream_prepared_transcript(t) ==
    /\ pc[t] = "idle"
    /\ StateLockAcquirable(state_lock, t)
    /\ state_lock' = {t}
    /\ \E requested \in Models \cup {None} :
          /\ llm_model_id' = OverrideId(llm_model_id, requested)
          /\ self_llm_model' = OverrideHandles(llm_model_id, requested, self_llm_model)
    /\ Touch
    /\ \E search \in BOOLEAN :
          pc' = [pc EXCEPT ![t] = IF search THEN "search_wait" ELSE "ensure"]
    /\ op' = [op EXCEPT ![t] = FlowOf(PreparedEntry)]
    /\ UNCHANGED <<ntok, loading, generation_lock, llm_model,
                   idle_timeout_seconds, sched_past>>
    /\ UNCHANGED <<shutdown, dataVars>>

\* run_asr_chunk: _transcribe_audio returns, the with block ends, the response is built
AsrChunkDone(t) ==
    /\ pc[t] = "transcribe"
    /\ op[t] = "run_asr_chunk"
    /\ state_lock' = {}
    /\ pc' = [pc EXCEPT ![t] = "idle"]
    /\ op' = [op EXCEPT ![t] = None]
    /\ UNCHANGED <<ntok, loading, generation_lock, modelVars,
                   idle_timeout_seconds, last_active_age, styleVars>>
    /\ UNCHANGED <<shutdown, dataVars>>

\* faulty variant: the with block ends right after _transcribe_audio
LockAfterTranscribeReleased(t) == {}

\* the state lock while the with block of run_* / stream_* goes on after
\* _transcribe_audio returned
LockAfterTranscribe(t) == {t}

\* the other entries: _transcribe_audio returns and the prompt is assembled;
\* the ask entries call _prepare_ask_search_context, which calls _decide_search
\* when req.web_search_enabled
TranscribeDone(t) ==
    /\ pc[t] = "transcribe"
    /\ op[t] # "run_asr_chunk"
    /\ \E search \in BOOLEAN :
          /\ search => op[t] \in AskEntries
          /\ pc' = [pc EXCEPT ![t] =
                      IF search THEN "search_wait" ELSE AfterPrompt(FlowOf(op[t]))]
    /\ op' = [op EXCEPT ![t] = FlowOf(op[t])]
    /\ state_lock' = LockAfterTranscribe(t)
    /\ UNCHANGED <<ntok, loading, generation_lock, modelVars,
                   idle_timeout_seconds, last_active_age, styleVars>>
    /\ UNCHANGED <<shutdown, dataVars>>

\* _ensure_llm_loaded up to the call of load(), by thread t now at a pc that
\* goes to `loadPc` when load() is needed and to `donePc` otherwise
EnsureBegin(t, loadPc, donePc) ==
    IF NeedsLoad(self_llm_model, llm_model_id, llm_model)
    THEN /\ loading' = [loading EXCEPT ![t] = llm_model_id]
         /\ pc' = [pc EXCEPT ![t] = loadPc]
         /\ UNCHANGED modelVars
    ELSE /\ self_llm_model' = HandlesWithoutLoad(self_llm_model, llm_model_id, llm_model)
         /\ pc' = [pc EXCEPT ![t] = donePc]
         /\ UNCHANGED <<loading, llm_model_id, llm_model>>

\* _ensure_llm_loaded after load() returned: the handles are stored, and the
\* module-level cache too when self.llm_model_id (read again) is LLM_REPO
EnsureEnd(t) ==
    /\ self_llm_model' = loading[t]
    /\ llm_model' = IF llm_model_id = LLM_REPO THEN loading[t] ELSE llm_model
    /\ loading' = [loading EXCEPT ![t] = None]
    /\ UNCHANGED llm_model_id

\* _generate_chat (blocking) and _stream_generate_chat: acquire the generation
\* lock, then _ensure_llm_loaded
GenerateBegin(t) ==
    /\ t \in Req
    /\ pc[t] \in WaitPcs
    /\ AcquireBlocking(generation_lock)
    /\ generation_lock' = {t}
    /\ EnsureBegin(t, LoadPcOf(pc[t]), GenPcOf(pc[t]))
    /\ UNCHANGED <<op, ntok, state_lock, idle_timeout_seconds,
                   last_active_age, styleVars>>
    /\ UNCHANGED <<shutdown, dataVars>>

\* load() returns inside a generation call
GenerateLoaded(t) ==
    /\ pc[t] \in LoadPcs
    /\ EnsureEnd(t)
    /\ pc' = [pc EXCEPT ![t] = GenPcOf(pc[t])]
    /\ UNCHANGED <<op, ntok, state_lock, generation_lock, idle_timeout_seconds,
                   last_active_age, styleVars>>
    /\ UNCHANGED <<shutdown, dataVars>>

\* one iteration of `for response in iterator` / `for chunk in iterator`
GenerateToken(t) ==
    /\ pc[t] \in GenPcs
    /\ ntok[t] < MaxTokens
    /\ ntok' = [ntok EXCEPT ![t] = ntok[t] + 1]
    /\ UNCHANGED <<pc, op, loading, state_lock, generation_lock, modelVars,
                   idle_timeout_seconds, last_active_age, styleVars>>
    /\ UNCHANGED <<shutdown, dataVars>>

\* faulty variant: a generation call that returns without releasing
LockAfterGenerationKept(t) == {t}

\* the generation lock once a generation call has returned: `finally:
\* self._generation_lock.release()` of _generate_chat, the end of `with
\* self._generation_lock` of _stream_generate_chat
LockAfterGeneration(t) == {}

\* faulty variant: the release is skipped when the call is left by an exception
LockAfterRaiseKept(t) == {t}

\* the generation lock once a generation call has been left by an exception
\* (GeneratorExit when the generator is closed): the same finally / with
LockAfterRaise(t) == {}

\* _decide_search: its _generate_chat returns (the lock is released in finally)
SearchDone(t) ==
    /\ pc[t] = "search_gen"
    /\ generation_lock' = LockAfterGeneration(t)
    /\ ntok' = [ntok EXCEPT ![t] = 0]
    /\ pc' = [pc EXCEPT ![t] = AfterPrompt(op[t])]
    /\ UNCHANGED <<op, loading, state_lock, modelVars, idle_timeout_seconds,
                   last_active_age, styleVars>>
    /\ UNCHANGED <<shutdown, dataVars>>

\* the state lock after _run_llm_sync returned: the with block of run_* ends
LockAfterRun(t) == {}

\* _run_llm_sync: _generate_chat returns, self._touch(); then the with block of
\* run_dictate / run_ask / run_translate ends
RunLlmSyncDone(t) ==
    /\ pc[t] = "gen"
    /\ generation_lock' = LockAfterGeneration(t)
    /\ Touch
    /\ state_lock' = LockAfterRun(t)
    /\ pc' = [pc EXCEPT ![t] = IF ntok[t] > 0 THEN "schedule" ELSE "idle"]
    /\ op' = [op EXCEPT ![t] = None]
    /\ ntok' = [ntok EXCEPT ![t] = 0]
    /\ UNCHANGED <<loading, modelVars, idle_timeout_seconds, sched_past>>
    /\ UNCHANGED <<shutdown, dataVars>>

\* faulty variant: the token loop runs inside the with block
LockAfterEnsureKept(t) == {t}

\* the state lock once the with block of a stream_* entry has ended
LockAfterEnsure(t) == {}

\* stream_*: self._ensure_llm_loaded() while the state lock is still held; the
\* with block ends when no load() is needed
StreamEnsure(t) ==
    /\ pc[t] = "ensure"
    /\ EnsureBegin(t, "ensure_load", "ready")
    /\ state_lock' = IF NeedsLoad(self_llm_model, llm_model_id, llm_model)
                     THEN state_lock ELSE LockAfterEnsure(t)
    /\ UNCHANGED <<op, ntok, generation_lock, idle_timeout_seconds,
                   last_active_age, styleVars>>
    /\ UNCHANGED <<shutdown, dataVars>>

\* stream_*: load() returns under the state lock, the with block ends
StreamEnsureLoaded(t) ==
    /\ pc[t] = "ensure_load"
    /\ EnsureEnd(t)
    /\ state_lock' = LockAfterEnsure(t)
    /\ pc' = [pc EXCEPT ![t] = "ready"]
    /\ UNCHANGED <<op, ntok, generation_lock, idle_timeout_seconds,
                   last_active_age, styleVars>>
    /\ UNCHANGED <<shutdown, dataVars>>

\* _stream_mode_response: the token loop ends, the generation lock is released,
\* finally: self._touch(); output = "".join(output_parts).strip() or raw_text
StreamDone(t) ==
    /\ pc[t] = "stream_gen"
    /\ generation_lock' = LockAfterGeneration(t)
    /\ Touch
    /\ \E nonEmpty \in BOOLEAN :
          /\ ntok[t] > 0 => nonEmpty
          /\ pc' = [pc EXCEPT ![t] = IF nonEmpty THEN "schedule" ELSE "idle"]
    /\ op' = [op EXCEPT ![t] = None]
    /\ ntok' = [ntok EXCEPT ![t] = 0]
    /\ UNCHANGED <<loading, state_lock, modelVars, idle_timeout_seconds, sched_past>>
    /\ UNCHANGED <<shutdown, dataVars>>

\* load() or the token iterator raises inside a generation call of a request:
\* the generation lock is released on the way out; the exception leaves the
\* with block of the entry point when the call was made inside it (the state
\* lock is released), and passes `finally: self._touch()` of
\* _stream_mode_response when the call was the streaming one; nothing is
\* scheduled, the request fails
GenerateRaises(t) ==
    /\ t \in Req
    /\ pc[t] \in LoadPcs \cup GenPcs
    /\ generation_lock' = LockAfterRaise(t)
    /\ state_lock' = state_lock \ {t}
    /\ IF pc[t] \in {"stream_load", "stream_gen"}
       THEN Touch
       ELSE UNCHANGED <<last_active_age, advanced, newer>>
    /\ pc' = [pc EXCEPT ![t] = "failed"]
    /\ op' = [op EXCEPT ![t] = None]
    /\ ntok' = [ntok EXCEPT ![t] = 0]
    /\ loading' = [loading EXCEPT ![t] = None]
    /\ UNCHANGED <<modelVars, idle_timeout_seconds, sched_past>>
    /\ UNCHANGED <<shutdown, dataVars>>

\* the consumer closes the streaming response after a token was yielded:
\* GeneratorExit at `yield self._sse_event(...)`, finally: self._touch(); the
\* generator of _stream_generate_chat is finalised at its `yield token`, which
\* ends `with self._generation_lock`; _start_style_learning_task is not reached
StreamClose(t) ==
    /\ pc[t] = "stream_gen"
    /\ ntok[t] > 0
    /\ generation_lock' = LockAfterRaise(t)
    /\ Touch
    /\ pc' = [pc EXCEPT ![t] = "closed"]
    /\ op' = [op EXCEPT ![t] = None]
    /\ ntok' = [ntok EXCEPT ![t] = 0]
    /\ UNCHANGED <<loading, state_lock, modelVars, idle_timeout_seconds, sched_past>>
    /\ UNCHANGED <<shutdown, dataVars>>

\* the failed or closed request is over: the thread takes the next request
RequestAborted(t) ==
    /\ pc[t] \in {"failed", "closed"}
    /\ pc' = [pc EXCEPT ![t] = "idle"]
    /\ UNCHANGED <<op, ntok, loading, state_lock, generation_lock, modelVars,
                   idle_timeout_seconds, last_active_age, styleVars>>
    /\ UNCHANGED <<shutdown, dataVars>>

\* _start_style_learning_task: with self._lock: scheduled_at = self._last_active;
\* then the thread is started (a task slot must be free)
StartStyleLearningTask(t) ==
    /\ pc[t] = "schedule"
    /\ StateLockAcquirable(state_lock, t)
    /\ \E s \in Style :
          /\ pc[s] = "free"
          /\ \A r \in Style : pc[r] = "free" => s <= r
          /\ pc' = [pc EXCEPT ![t] = "idle", ![s] = "sleep"]
          /\ sched_past' = [sched_past EXCEPT ![s] = last_active_age > 0]
          /\ advanced' = [advanced EXCEPT ![s] = FALSE]
          /\ newer' = [newer EXCEPT ![s] = FALSE]
    /\ UNCHANGED <<op, ntok, loading, state_lock, generation_lock, modelVars,
                   idle_timeout_seconds, last_active_age>>
    /\ UNCHANGED <<shutdown, dataVars>>

\* ---------------------------------------------- configuration and health

\* set_idle_timeout
set_idle_timeout(t) ==
    /\ pc[t] = "idle"
    /\ StateLockAcquirable(state_lock, t)
    /\ \E seconds \in TimeoutChoices : idle_timeout_seconds' = seconds
    /\ Touch
    /\ UNCHANGED <<pc, op, ntok, loading, state_lock, generation_lock,
                   modelVars, sched_past>>
    /\ UNCHANGED <<shutdown, dataVars>>

\* health: reads under the state lock, writes nothing of the model state
health(t) ==
    /\ pc[t] = "idle"
    /\ StateLockAcquirable(state_lock, t)
    /\ HealthReport.llm_model = llm_model_id
    /\ UNCHANGED vars

\* ------------------------------------------------- release and watchdog

\* release_models: with self._lock: the handles and the module cache are cleared
ReleaseBegin(t, from) ==
    /\ pc[t] = from
    /\ StateLockAcquirable(state_lock, t)
    /\ state_lock' = {t}
    /\ self_llm_model' = None
    /\ llm_model' = None
    /\ pc' = [pc EXCEPT ![t] = "release"]
    /\ UNCHANGED <<op, ntok, loading, generation_lock, llm_model_id,
                   idle_timeout_seconds, last_active_age, styleVars>>
    /\ UNCHANGED <<shutdown, dataVars>>

\* release_models: self._touch(), the with block ends
ReleaseEnd(t, to) ==
    /\ pc[t] = "release"
    /\ Touch
    /\ state_lock' = {}
    /\ pc' = [pc EXCEPT ![t] = to]
    /\ UNCHANGED <<op, ntok, loading, generation_lock, modelVars,
                   idle_timeout_seconds, sched_past>>
    /\ UNCHANGED <<shutdown, dataVars>>

\* POST /release
release_models(t) ==
    \/ ReleaseBegin(t, "idle")
    \/ ReleaseEnd(t, "idle")

\* _watchdog_loop: `while not self._shutdown.is_set()` after an iteration;
\* "sleep" is the thread inside time.sleep(2.0), "done" the thread returned
WatchdogLoop(shut) == IF shut THEN "done" ELSE "sleep"

\* _watchdog_loop: one poll; the lock is released before release_models is called
WatchdogCheck ==
    /\ pc[WD] = "sleep"
    /\ StateLockAcquirable(state_lock, WD)
    /\ pc' = [pc EXCEPT ![WD] =
                IF ShouldRelease(idle_timeout_seconds, self_llm_model, last_active_age)
                THEN "evict" ELSE WatchdogLoop(shutdown)]
    /\ UNCHANGED <<op, ntok, loading, state_lock, generation_lock, modelVars,
                   idle_timeout_seconds, last_active_age, styleVars>>
    /\ UNCHANGED <<shutdown, dataVars>>

\* _watchdog_loop: if should_release: self.release_models()
WatchdogRelease == ReleaseBegin(WD, "evict")

WatchdogReleased == ReleaseEnd(WD, WatchdogLoop(shutdown))

\* ------------------------------------------------------------ shutdown

\* threading.Thread.join(timeout=1.0) returns: the thread has ended, or the
\* timeout has elapsed
JoinReturns(ended, timed_out) == ended \/ timed_out

\* stop: self._shutdown.set()
StopSetShutdown ==
    /\ pc[Main] = "serving"
    /\ shutdown' = TRUE
    /\ pc' = [pc EXCEPT ![Main] = "join"]
    /\ UNCHANGED <<op, ntok, loading, state_lock, generation_lock, modelVars,
                   idle_timeout_seconds, last_active_age, styleVars, dataVars>>

\* stop: if self._watchdog_thread.is_alive(): self._watchdog_thread.join(timeout=1.0)
StopJoin ==
    /\ pc[Main] = "join"
    /\ \E timed_out \in BOOLEAN : JoinReturns(pc[WD] = "done", timed_out)
    /\ pc' = [pc EXCEPT ![Main] = "joined"]
    /\ UNCHANGED <<op, ntok, loading, state_lock, generation_lock, modelVars,
                   idle_timeout_seconds, last_active_age, styleVars, shutdown,
                   dataVars>>

\* stop: self.release_models(), then stop returns
StopRelease ==
    \/ ReleaseBegin(Main, "joined")
    \/ ReleaseEnd(Main, "stopped")

\* stop(), called once when the application's lifespan ends
stop ==
    \/ StopSetShutdown
    \/ StopJoin
    \/ StopRelease

\* ------------------------------------------------------ style learning

\* _extract_and_merge_style_rules: after time.sleep(4.0), the check under the lock
StyleCheck(s) ==
    /\ pc[s] = "sleep"
    /\ StateLockAcquirable(state_lock, s)
    /\ pc' = [pc EXCEPT ![s] =
                IF newer[s] \/ last_active_age < StyleLearningIdleGrace
                THEN "free" ELSE "checked"]
    /\ sched_past' = [sched_past EXCEPT ![s] = FALSE]
    /\ advanced' = [advanced EXCEPT ![s] = FALSE]
    /\ newer' = [newer EXCEPT ![s] = FALSE]
    /\ UNCHANGED <<op, ntok, loading, state_lock, generation_lock, modelVars,
                   idle_timeout_seconds, last_active_age>>
    /\ UNCHANGED <<shutdown, dataVars>>

\* _generate_chat(try_generation_lock=True): "" when the lock is taken
StyleGenerateBegin(s) ==
    /\ pc[s] = "checked"
    /\ IF AcquireNonBlocking(generation_lock)
       THEN /\ generation_lock' = {s}
            /\ EnsureBegin(s, LoadPcOf(pc[s]), GenPcOf(pc[s]))
       ELSE /\ pc' = [pc EXCEPT ![s] = "free"]
            /\ UNCHANGED <<generation_lock, loading, modelVars>>
    /\ UNCHANGED <<op, ntok, state_lock, idle_timeout_seconds,
                   last_active_age, styleVars>>
    /\ UNCHANGED <<shutdown, dataVars>>

\* _generate_chat returns to _extract_and_merge_style_rules; empty or unparsable
\* rules end the task
StyleGenerateDone(s) ==
    /\ pc[s] = "style_gen"
    /\ generation_lock' = LockAfterGeneration(s)
    /\ \E rules \in BOOLEAN :
          /\ rules => ntok[s] > 0
          /\ pc' = [pc EXCEPT ![s] = IF rules THEN "merge" ELSE "free"]
    /\ ntok' = [ntok EXCEPT ![s] = 0]
    /\ UNCHANGED <<op, loading, state_lock, modelVars, idle_timeout_seconds,
                   last_active_age, styleVars>>
    /\ UNCHANGED <<shutdown, dataVars>>

\* load() or the token iterator raises inside the style generation: the lock
\* is released in finally, `except Exception: return` ends the task
StyleGenerateRaises(s) ==
    /\ s \in Style
    /\ pc[s] \in {"style_load", "style_gen"}
    /\ generation_lock' = LockAfterRaise(s)
    /\ pc' = [pc EXCEPT ![s] = "free"]
    /\ ntok' = [ntok EXCEPT ![s] = 0]
    /\ loading' = [loading EXCEPT ![s] = None]
    /\ UNCHANGED <<op, state_lock, modelVars, idle_timeout_seconds,
                   last_active_age, styleVars>>
    /\ UNCHANGED <<shutdown, dataVars>>

\* with self._lock: the merged rules are written to the style profile; what is
\* written is MergeRead and MergeWrite of ProfileSpec
StyleMerge(s) ==
    /\ pc[s] = "merge"
    /\ StateLockAcquirable(state_lock, s)
    /\ pc' = [pc EXCEPT ![s] = "free"]
    /\ UNCHANGED <<op, ntok, loading, state_lock, generation_lock, modelVars,
                   idle_timeout_seconds, last_active_age, styleVars>>
    /\ UNCHANGED <<shutdown, dataVars>>

\* ------------------------------------------------------- style profile
\* A rule is a string: k > 0 is a rule text without surrounding whitespace, -k
\* the same text with surrounding whitespace, 0 a blank string.

Blank == 0

\* str(rule).strip()
Strip(rule) == IF rule < 0 THEN 0 - rule ELSE rule

\* [str(rule).strip() for rule in rules if str(rule).strip()]
Stripped(rules) ==
    SelectSeq([i \in DOMAIN rules |-> Strip(rules[i])], LAMBDA r : r # Blank)

\* rule in merged
Contains(merged, rule) == \E i \in DOMAIN merged : merged[i] = rule

RECURSIVE AppendAll(_, _)
\* faulty variant: the membership test is missing
AppendAll(merged, new_rules) ==
    IF new_rules = <<>> THEN merged
    ELSE AppendAll(Append(merged, Head(new_rules)), Tail(new_rules))

RECURSIVE AppendNew(_, _)
\* for rule in new_rules: if rule not in merged: merged.append(rule)
AppendNew(merged, new_rules) ==
    IF new_rules = <<>> THEN merged
    ELSE AppendNew(IF Contains(merged, Head(new_rules)) THEN merged
                   ELSE Append(merged, Head(new_rules)),
                   Tail(new_rules))

\* merged[:n]
Truncate(merged, n) == SubSeq(merged, 1, IF Len(merged) < n THEN Len(merged) ELSE n)

\* _extract_and_merge_style_rules: profile["rules"] from the stored rules and
\* the extracted ones
MergedRules(stored, extracted) ==
    Truncate(AppendNew(Stripped(stored), Stripped(extracted)), StyleRuleCap)

\* the k-th rule counted from rule a, wrapping around at MaxRule
RuleFrom(a, k) == ((a + k - 2) % MaxRule) + 1

\* the answers of the model: BatchLen consecutive rules from rule a, as they are
\* or led by a whitespace variant of the first one and a blank string
BatchStarts == {a \in 1..MaxRule : a % BatchStride = 1}

RuleBatches ==
    {[k \in 1..BatchLen |-> RuleFrom(a, k)] : a \in BatchStarts}
    \cup {<<0 - a, Blank>> \o [k \in 1..BatchLen |-> RuleFrom(a, k)] : a \in BatchStarts}

\* _extract_and_merge_style_rules from `if not new_rules: return` to the
\* assignment of profile["rules"], inside the with block
MergeRead ==
    /\ merge_at = "idle"
    /\ \E extracted \in RuleBatches :
          /\ Stripped(extracted) # <<>>
          /\ maybe_rules' = extracted
          /\ profile_rules' = MergedRules(style_rules, extracted)
    /\ merge_at' = "write"
    /\ UNCHANGED <<style_rules, runtimeVars, pipelineVars, segmenterVars, detectorVars>>

\* self.style_profile_path.write_text(...), the with block ends
MergeWrite ==
    /\ merge_at = "write"
    /\ style_rules' = profile_rules
    /\ merge_at' = "idle"
    /\ maybe_rules' = <<>>
    /\ profile_rules' = <<>>
    /\ UNCHANGED <<runtimeVars, pipelineVars, segmenterVars, detectorVars>>

\* clear_style_profile: called by the route without the state lock
clear_style_profile ==
    /\ style_rules' = <<>>
    /\ UNCHANGED <<merge_at, maybe_rules, profile_rules, runtimeVars, pipelineVars, segmenterVars, detectorVars>>

ProfileNext ==
    \/ MergeRead
    \/ MergeWrite
    \/ clear_style_profile

\* the style profile under merges and clears
ProfileSpec == Init /\ [][ProfileNext]_vars

\* ----------------------------------------------------------- segmenter
\* A frame is its position in the list of frames, 1..N; every frame holds
\* frame_size samples (_split_into_frames pads the last one).

\* frame_size = 160  # 10ms at 16kHz
frame_size == 160
\* enter_speech_frames = 3
enter_speech_frames == 3
\* adaptive_window_frames = 60  # 600ms
adaptive_window_frames == 60
\* max_segment_frames = int((30 * 16000) / frame_size)
max_segment_frames == (30 * 16000) \div frame_size

Min(a, b) == IF a <= b THEN a ELSE b

\* int(round(a / b)) for a >= 0, b > 0: Python rounds halves to the even integer
RoundHalfEven(a, b) ==
    LET q == a \div b
        r == a % b
    IN  IF 2 * r < b THEN q
        ELSE IF 2 * r > b THEN q + 1
        ELSE IF q % 2 = 0 THEN q ELSE q + 1

\* pre_roll_frames = max(0, min(int(round(pre_roll_ms / 10.0)), 50))
pre_roll_frames(pre_roll_ms) == Max(0, Min(RoundHalfEven(pre_roll_ms, 10), 50))

\* base_exit_silence_frames = max(20, min(int(round(anti_cutoff_pause_ms / 10.0)), 120))
base_exit_silence_frames(anti_cutoff_pause_ms) ==
    Max(20, Min(RoundHalfEven(anti_cutoff_pause_ms, 10), 120))

\* adaptive_min_exit_frames = max(12, min(18, int(round(base_exit_silence_frames * 0.5))))
adaptive_min_exit_frames(base) == Max(12, Min(18, RoundHalfEven(base, 2)))

\* a deque that never discards
DequeAppendUnbounded(q, x, maxlen) == Append(q, x)

\* collections.deque(maxlen=maxlen).append(x)
DequeAppend(q, x, maxlen) ==
    IF maxlen = 0 THEN <<>>
    ELSE IF Len(q) >= maxlen THEN Append(Tail(q), x)
    ELSE Append(q, x)

\* entering one speech frame early
EnterReachedEarly(run) == run >= enter_speech_frames - 1

\* `if speech_run >= enter_speech_frames:`
EnterReached(run) == run >= enter_speech_frames

\* one iteration of `for frame, is_speech in zip(frames, vad_flags)` while
\* not in_segment
SegmenterIdleStep(st, is_speech) ==
    LET run == IF is_speech THEN st.speech_run + 1 ELSE 0
    IN  IF EnterReached(run)
        THEN [st EXCEPT !.in_segment = TRUE,
                        !.pre_roll_hits =
                            IF Len(st.pre_roll) > enter_speech_frames
                            THEN @ + 1 ELSE @,
                        !.current_frames = st.pre_roll,
                        !.silence_run = 0,
                        !.speech_run = 0]
        ELSE [st EXCEPT !.speech_run = run]

\* a window of half the length
StableRecentSilenceHalfWindow(recent_flags) ==
    /\ Len(recent_flags) >= adaptive_window_frames \div 2
    /\ \A i \in DOMAIN recent_flags :
          i > Len(recent_flags) - adaptive_window_frames \div 2 => ~recent_flags[i]

\* stable_recent_silence =
\*     len(recent_flags) >= adaptive_window_frames and not any(recent_flags)
StableRecentSilence(recent_flags) ==
    /\ Len(recent_flags) >= adaptive_window_frames
    /\ \A i \in DOMAIN recent_flags : ~recent_flags[i]

\* the fast threshold whatever the window holds
EffectiveExitFramesAlwaysFast(stable, base, fast) == fast

\* effective_exit_frames: base_exit_silence_frames, or
\* adaptive_min_exit_frames `if stable_recent_silence:`
EffectiveExitFrames(stable, base, fast) == IF stable THEN fast ELSE base

\* every accumulated frame kept
KeepFramesAll(n, s) == n

\* keep_frames = max(1, len(current_frames) - max(0, silence_run - 2))
KeepFrames(n, s) == Max(1, n - Max(0, s - 2))

\* a candidate of any length kept
LongEnoughAlways(n) == TRUE

\* `if segment.size >= frame_size * 3:` for a candidate of n frames
LongEnough(n) == n * frame_size >= frame_size * 3

\* the split one frame late
SplitReachedLate(n) == n > max_segment_frames

\* `if len(current_frames) >= max_segment_frames:`
SplitReached(n) == n >= max_segment_frames

\* one iteration of the loop while in_segment; `frame` is already in
\* recent_flags and pre_roll
SegmenterActiveStep(st, frame, is_speech, base, fast) ==
    LET current == Append(st.current_frames, frame)
        silence == IF is_speech THEN 0 ELSE st.silence_run + 1
        stable_recent_silence == StableRecentSilence(st.recent_flags)
        effective_exit_frames == EffectiveExitFrames(stable_recent_silence, base, fast)
        keep_frames == KeepFrames(Len(current), silence)
        segment == SubSeq(current, 1, keep_frames)
    IN  IF SplitReached(Len(current))
        THEN [st EXCEPT !.segments = Append(@, current),
                        !.current_frames = <<>>,
                        !.forced_split_count = @ + 1,
                        !.silence_run = 0]
        ELSE IF silence >= effective_exit_frames
        THEN [st EXCEPT !.segments =
                            IF LongEnough(Len(segment))
                            THEN Append(@, segment) ELSE @,
                        !.ignored_short_segments =
                            IF LongEnough(Len(segment))
                            THEN @ ELSE @ + 1,
                        !.adaptive_fast_exit_hits =
                            IF stable_recent_silence THEN @ + 1 ELSE @,
                        !.current_frames = <<>>,
                        !.in_segment = FALSE,
                        !.speech_run = 0,
                        !.silence_run = 0]
        ELSE [st EXCEPT !.current_frames = current,
                        !.silence_run = silence,
                        !.adaptive_fast_exit_hits =
                            IF stable_recent_silence THEN @ + 1 ELSE @]

\* one iteration of the loop
SegmenterStep(st, frame, is_speech, preroll, base, fast) ==
    LET seen == [st EXCEPT !.recent_flags =
                               DequeAppend(@, is_speech, adaptive_window_frames),
                           !.pre_roll = DequeAppend(@, frame, preroll)]
    IN  IF ~st.in_segment
        THEN SegmenterIdleStep(seen, is_speech)
        ELSE SegmenterActiveStep(seen, frame, is_speech, base, fast)

\* a return without the tail
SegmenterFlushDropsTail(st) == st

\* after the loop: `if current_frames:` the tail is kept when it is long enough
SegmenterFlush(st) ==
    IF st.current_frames = <<>> THEN st
    ELSE IF LongEnough(Len(st.current_frames))
    THEN [st EXCEPT !.segments = Append(@, st.current_frames)]
    ELSE [st EXCEPT !.ignored_short_segments = @ + 1]

RECURSIVE SegmenterRun(_, _, _, _, _, _)
\* the loop over frames `from`..len(vad_flags)
SegmenterRun(st, from, flags, preroll, base, fast) ==
    IF from > Len(flags) THEN st
    ELSE SegmenterRun(SegmenterStep(st, from, flags[from], preroll, base, fast),
                      from + 1, flags, preroll, base, fast)

\* _segment_by_vad: the segments, each the sequence of its frames
segment_by_vad(flags, anti_cutoff_pause_ms, pre_roll_ms) ==
    IF flags = <<>> THEN <<>>
    ELSE LET base == base_exit_silence_frames(anti_cutoff_pause_ms)
         IN  SegmenterFlush(
                 SegmenterRun(SegmenterStart, 1, flags,
                              pre_roll_frames(pre_roll_ms), base,
                              adaptive_min_exit_frames(base))).segments

\* runs of flags: speech of 2, 3 or 30 frames, silence of 1, 19, 20 or 60
SpeechRuns == {[speech |-> TRUE, frames |-> n] : n \in {2, 3, 30}}
SilenceRuns == {[speech |-> FALSE, frames |-> n] : n \in {1, 19, 20, 60}}

\* sequences of 0..MaxRuns runs, speech and silence in turn
Alternating ==
    UNION {{r \in [1..n -> SpeechRuns \cup SilenceRuns] :
               \A i \in 1..(n - 1) : r[i].speech # r[i + 1].speech} : n \in 0..MaxRuns}

\* a stretch of speech longer than max_segment_frames, and one that is still
\* open when 60 frames of silence follow
LongRuns ==
    {<<[speech |-> TRUE, frames |-> LongSpeech]>>,
     <<[speech |-> TRUE, frames |-> LongSpeech - 50], [speech |-> FALSE, frames |-> 60]>>}

\* the arguments of a call: hangover_ms is in [100, 1200] and preroll_ms in
\* [0, 500] (_audio_config_from_request)
SegmenterCalls ==
    [runs : Alternating \cup LongRuns, anti_cutoff_pause_ms : {200, 1200},
     pre_roll_ms : {0, 100, 500}]

RECURSIVE NumFrames(_)
\* len(vad_flags)
NumFrames(runs) == IF runs = <<>> THEN 0 ELSE Head(runs).frames + NumFrames(Tail(runs))

RECURSIVE FlagAt(_, _)
\* vad_flags[i - 1], for i in 1..len(vad_flags)
FlagAt(runs, i) ==
    IF i <= Head(runs).frames THEN Head(runs).speech
    ELSE FlagAt(Tail(runs), i - Head(runs).frames)

\* _segment_by_vad up to its loop: `if not frames or not vad_flags: return []`
SegmentByVadBegin ==
    /\ seg_pc = "idle"
    /\ \E call \in SegmenterCalls :
           /\ seg_call' = call
           /\ seg_pc' = IF NumFrames(call.runs) = 0 THEN "returned" ELSE "loop"
    /\ segmenter' = SegmenterStart
    /\ frame_no' = 0
    /\ idle_from' = 1
    /\ UNCHANGED <<runtimeVars, profileVars, pipelineVars, detectorVars>>

\* one iteration of `for frame, is_speech in zip(frames, vad_flags)`
SegmenterFrame ==
    /\ seg_pc = "loop"
    /\ frame_no < NumFrames(seg_call.runs)
    /\ LET base == base_exit_silence_frames(seg_call.anti_cutoff_pause_ms)
           next == SegmenterStep(segmenter, frame_no + 1,
                                 FlagAt(seg_call.runs, frame_no + 1),
                                 pre_roll_frames(seg_call.pre_roll_ms), base,
                                 adaptive_min_exit_frames(base))
       IN  /\ segmenter' = next
           /\ idle_from' = IF segmenter.in_segment /\ ~next.in_segment
                           THEN frame_no + 2 ELSE idle_from
    /\ frame_no' = frame_no + 1
    /\ UNCHANGED <<seg_pc, seg_call, runtimeVars, profileVars, pipelineVars, detectorVars>>

\* the loop is over: the tail, then `return segments, stats`
SegmenterReturn ==
    /\ seg_pc = "loop"
    /\ frame_no = NumFrames(seg_call.runs)
    /\ segmenter' = SegmenterFlush(segmenter)
    /\ seg_pc' = "returned"
    /\ UNCHANGED <<seg_call, frame_no, idle_from, runtimeVars, profileVars,
                   pipelineVars, detectorVars>>

\* the caller has the segments; the next call starts afresh
SegmenterDone ==
    /\ seg_pc = "returned"
    /\ seg_pc' = "idle"
    /\ seg_call' = NoCall
    /\ frame_no' = 0
    /\ segmenter' = SegmenterStart
    /\ idle_from' = 1
    /\ UNCHANGED <<runtimeVars, profileVars, pipelineVars, detectorVars>>

SegmenterNext ==
    \/ SegmentByVadBegin
    \/ SegmenterFrame
    \/ SegmenterReturn
    \/ SegmenterDone

\* calls of _segment_by_vad, one after the other
SegmenterSpec == Init /\ [][SegmenterNext]_vars

\* ------------------------------------------------------- audio pipeline
\* One call of _transcribe_audio at a time: a call's temporary directory is
\* its own (mkdtemp), so concurrent calls do not share any path.

Modes == {"webrtc", "system_voice_processing", "off"}
Versions == {"legacy", "v2"}
HangoverChoices == {200}
PrerollChoices == {0, 100}

\* _audio_config_from_request: `if mode == "off": enabled = False`; the vad
\* values are stored clamped
AudioConfigs ==
    {NoConfig} \cup
    {c \in [present : {TRUE}, enabled : BOOLEAN, mode : Modes,
             enhancement_version : Versions, hangover_ms : HangoverChoices,
             preroll_ms : PrerollChoices] : c.mode = "off" => ~c.enabled}

\* size of the decoded signal at 16 kHz
SampleChoices == {0, 100, frame_size, 3 * frame_size, MaxFrames * frame_size}

\* the file at audio_path: what wave.open makes of it
Wavs ==
    {[suffix_wav |-> w, container |-> "malformed", sample_width |-> 0,
      mono_16k |-> FALSE, samples |-> 0] : w \in BOOLEAN}
    \cup [suffix_wav : BOOLEAN, container : {"ok"}, sample_width : 1..4,
          mono_16k : BOOLEAN, samples : SampleChoices]

\* a file written by _write_wav_mono_16k_int16
SegmentWav(size) ==
    [suffix_wav |-> TRUE, container |-> "ok", sample_width |-> 2,
     mono_16k |-> TRUE, samples |-> size]

\* _clamp_float for a value that is a number
clamp(value, lo, hi) == Max(lo, Min(value, hi))

\* _load_wav_as_mono_float32_16k: wave.open raises on a malformed container,
\* `raise ValueError(f"Unsupported WAV sample width: ...")` on other widths
load_wav_as_mono_float32_16k(wav) ==
    IF wav.container = "malformed" THEN [raised |-> TRUE, size |-> 0]
    ELSE IF wav.sample_width \in {2, 3, 4} THEN [raised |-> FALSE, size |-> wav.samples]
    ELSE [raised |-> TRUE, size |-> 0]

\* audio_io.load_wav_pcm16_mono: the waveform of a 16 kHz mono PCM16 file,
\* WavFormatError for another format, wave.Error for a container that does
\* not parse, ValueError for data it cannot use
load_wav_pcm16_mono(wav) ==
    IF wav.container = "malformed" THEN {"wave.Error"}
    ELSE IF wav.sample_width # 2 \/ ~wav.mono_16k THEN {"WavFormatError"}
    ELSE {"waveform", "ValueError"}

\* what _prepare_transcribe_input returns for a decoder that always falls
\* back to the path
PrepareTranscribeInputAnyDecoder(is_wav, loaded, ffmpeg, ndarray_support) ==
    IF is_wav /\ loaded = "ValueError"
    THEN [error_code |-> "asr_audio_invalid", requires_ffmpeg |-> FALSE]
    ELSE IF is_wav /\ loaded = "waveform" /\ ndarray_support
    THEN [error_code |-> None, requires_ffmpeg |-> FALSE]
    ELSE [error_code |-> None, requires_ffmpeg |-> TRUE]

\* _prepare_transcribe_input: error_code of the ASRRequestError it raises, or
\* None and the second component of the tuple it returns; `ffmpeg` is
\* self._ffmpeg_path after _refresh_ffmpeg_capability
prepare_transcribe_input(is_wav, loaded, ffmpeg, ndarray_support) ==
    IF is_wav
    THEN CASE loaded = "WavFormatError" ->
                  IF ffmpeg
                  THEN [error_code |-> None, requires_ffmpeg |-> TRUE]
                  ELSE [error_code |-> "asr_wav_format_unsupported",
                        requires_ffmpeg |-> FALSE]
           [] loaded = "wave.Error" ->
                  IF ffmpeg
                  THEN [error_code |-> None, requires_ffmpeg |-> TRUE]
                  ELSE [error_code |-> "asr_wav_decode_failed",
                        requires_ffmpeg |-> FALSE]
           [] loaded = "ValueError" ->
                  [error_code |-> "asr_audio_invalid", requires_ffmpeg |-> FALSE]
           [] OTHER ->
                  IF ndarray_support
                  THEN [error_code |-> None, requires_ffmpeg |-> FALSE]
                  ELSE IF ffmpeg
                  THEN [error_code |-> None, requires_ffmpeg |-> TRUE]
                  ELSE [error_code |-> "asr_ndarray_not_supported",
                        requires_ffmpeg |-> FALSE]
    ELSE IF ffmpeg
    THEN [error_code |-> None, requires_ffmpeg |-> TRUE]
    ELSE [error_code |-> "asr_decoder_unavailable", requires_ffmpeg |-> FALSE]

\* the names bound by `from enhancement_engine import (...)`: all of them, or
\* all None when the import failed
EngineImports ==
    {[EnhancementEngine |-> b, EnhancementV2Config |-> b] : b \in BOOLEAN}

\* _apply_enhancement_v2 without the try around the engine
ApplyEnhancementV2Unguarded(engine, v2_config, throws) ==
    IF ~engine
    THEN [raised |-> FALSE, chain |-> "boost_limiter",
          v2_backend |-> "legacy_fallback_module_missing", v2_error |-> FALSE]
    ELSE IF ~v2_config
    THEN [raised |-> FALSE, chain |-> "boost_limiter",
          v2_backend |-> "legacy_fallback_config_missing", v2_error |-> FALSE]
    ELSE IF throws
    THEN [raised |-> TRUE, chain |-> None, v2_backend |-> None, v2_error |-> FALSE]
    ELSE [raised |-> FALSE, chain |-> "engine_v2",
          v2_backend |-> "enhancement_engine_v2", v2_error |-> FALSE]

\* _apply_enhancement_v2: `engine` and `v2_config` say whether
\* EnhancementEngine and _build_v2_engine_config(...) are not None, `throws`
\* whether EnhancementEngine(v2_config) or engine.process(...) raises
apply_enhancement_v2(engine, v2_config, throws) ==
    IF ~engine
    THEN [raised |-> FALSE, chain |-> "boost_limiter",
          v2_backend |-> "legacy_fallback_module_missing", v2_error |-> FALSE]
    ELSE IF ~v2_config
    THEN [raised |-> FALSE, chain |-> "boost_limiter",
          v2_backend |-> "legacy_fallback_config_missing", v2_error |-> FALSE]
    ELSE IF throws
    THEN [raised |-> FALSE, chain |-> "boost_limiter",
          v2_backend |-> "legacy_fallback_runtime_error", v2_error |-> TRUE]
    ELSE [raised |-> FALSE, chain |-> "engine_v2",
          v2_backend |-> "enhancement_engine_v2", v2_error |-> FALSE]

\* the legacy branch of the enhancement step
LegacyChain(mode) == IF mode = "webrtc" THEN "webrtc_chain" ELSE "boost_limiter"

\* len(_split_into_frames(signal, frame_size)) for a signal of `size` samples
split_into_frames(size) == (size + frame_size - 1) \div frame_size

\* the flags the detector may give n frames: silence, speech, or speech at
\* both ends of a pause
VadPatterns(n) ==
    {[i \in 1..n |-> FALSE], [i \in 1..n |-> TRUE],
     [i \in 1..n |-> i <= enter_speech_frames \/ i > n - enter_speech_frames]}

\* the returns of _prepare_audio_for_transcription before any processing, with
\* the zero-length test left out
EarlyReturnNoEmptyTest(audio_config, loaded) ==
    IF ~audio_config.enabled \/ audio_config.mode = "off" THEN "not_enabled"
    ELSE IF loaded.raised THEN "audio_load_failed"
    ELSE None

\* the returns of _prepare_audio_for_transcription before any processing:
\* which one is taken, or None
EarlyReturn(audio_config, loaded) ==
    IF ~audio_config.enabled \/ audio_config.mode = "off" THEN "not_enabled"
    ELSE IF loaded.raised THEN "audio_load_failed"
    ELSE IF loaded.size = 0 THEN "empty_audio"
    ELSE None

\* the segments as the segmenter returned them
SegmentsAsReturned(found, whole) == found

\* `if not segments: segments = [enhanced_signal]`
SegmentsOrFallback(found, whole) == IF found = <<>> THEN <<whole>> ELSE found

\* the sizes of the segments _segment_by_vad returns
SegmentSizes(flags, audio_config) ==
    LET found == segment_by_vad(flags,
                                clamp(audio_config.hangover_ms, 100, 1200),
                                clamp(audio_config.preroll_ms, 0, 500))
    IN  [i \in DOMAIN found |-> Len(found[i]) * frame_size]

\* _transcribe_audio up to the call of the pipeline
TranscribeAudioBegin ==
    /\ stage = "idle"
    /\ \E c \in AudioConfigs, w \in Wavs :
           /\ request' = [audio_config |-> c, wav |-> w]
           /\ stage' = IF c.present /\ c.enabled THEN "prepare" ELSE "prepared"
    /\ transcribe_paths' = <<AudioPath>>
    /\ cleanup_paths' = <<>>
    /\ stats' = StatsStart
    /\ UNCHANGED <<signal_size, enhanced, vad_flags, segments, index, created, exists,
                   attempted, transcribed, pending, ffmpeg_path,
                   runtimeVars, profileVars, segmenterVars, detectorVars>>

\* _prepare_audio_for_transcription up to the enhancement step
PrepareLoad ==
    /\ stage = "prepare"
    /\ LET loaded == load_wav_as_mono_float32_16k(request.wav)
           reason == EarlyReturn(request.audio_config, loaded)
       IN  /\ stats' = [stats EXCEPT
                           !.enabled = request.audio_config.enabled,
                           !.fallback_reason =
                               IF reason \in {"audio_load_failed", "empty_audio"}
                               THEN reason ELSE None]
           /\ stage' = IF reason = None THEN "loaded" ELSE "prepared"
           /\ signal_size' = IF reason = None THEN loaded.size ELSE signal_size
    /\ UNCHANGED <<request, enhanced, vad_flags, segments, index, transcribe_paths,
                   cleanup_paths, created, exists, attempted, transcribed, pending,
                   ffmpeg_path,
                   runtimeVars, profileVars, segmenterVars, detectorVars>>

\* the enhancement step; every chain keeps the number of samples
Enhance ==
    /\ stage = "loaded"
    /\ \E imports \in EngineImports, throws \in BOOLEAN :
           LET v2 == apply_enhancement_v2(imports.EnhancementEngine,
                                          imports.EnhancementV2Config, throws)
           IN  IF request.audio_config.enhancement_version = "v2"
               THEN IF v2.raised
                    THEN /\ stage' = "raised"
                         /\ UNCHANGED <<enhanced, stats>>
                    ELSE /\ stage' = "enhanced"
                         /\ enhanced' = [size |-> signal_size, chain |-> v2.chain]
                         /\ stats' = [stats EXCEPT !.v2_backend = v2.v2_backend,
                                                   !.v2_error = v2.v2_error]
               ELSE /\ stage' = "enhanced"
                    /\ enhanced' = [size |-> signal_size,
                                    chain |-> LegacyChain(request.audio_config.mode)]
                    /\ UNCHANGED stats
    /\ UNCHANGED <<request, signal_size, vad_flags, segments, index, transcribe_paths,
                   cleanup_paths, created, exists, attempted, transcribed, pending,
                   ffmpeg_path,
                   runtimeVars, profileVars, segmenterVars, detectorVars>>

\* frames, vad flags, segments, the fallback segment and mkdtemp
Segment ==
    /\ stage = "enhanced"
    /\ \E flags \in VadPatterns(split_into_frames(enhanced.size)) :
           LET found == SegmentSizes(flags, request.audio_config)
           IN  /\ vad_flags' = flags
               /\ segments' = SegmentsOrFallback(found, enhanced.size)
               /\ stats' = [stats EXCEPT !.segmentation_fallback =
                                             SegmentsOrFallback(found, enhanced.size) # found]
    /\ created' = created \cup {TempDir}
    /\ exists' = exists \cup {TempDir}
    /\ cleanup_paths' = <<>>
    /\ transcribe_paths' = <<>>
    /\ index' = 1
    /\ stage' = "write"
    /\ UNCHANGED <<request, signal_size, enhanced, attempted, transcribed, pending,
                   ffmpeg_path,
                   runtimeVars, profileVars, segmenterVars, detectorVars>>

\* one iteration of `for index, segment in enumerate(segments)`:
\* _write_wav_mono_16k_int16 may raise before or after the file is there, and
\* nothing around the call catches it
WriteSegment ==
    /\ stage = "write"
    /\ index <= Len(segments)
    /\ IF segments[index] < frame_size
       THEN /\ index' = index + 1
            /\ UNCHANGED <<stage, cleanup_paths, transcribe_paths, created, exists>>
       ELSE \E written \in {"written", "no_file", "partial_file"} :
               /\ created' = IF written = "no_file" THEN created
                              ELSE created \cup {SegmentPath(index - 1)}
               /\ exists' = IF written = "no_file" THEN exists
                             ELSE exists \cup {SegmentPath(index - 1)}
               /\ IF written = "written"
                  THEN /\ cleanup_paths' = Append(cleanup_paths, SegmentPath(index - 1))
                       /\ transcribe_paths' = Append(transcribe_paths, SegmentPath(index - 1))
                       /\ index' = index + 1
                       /\ UNCHANGED stage
                  ELSE /\ stage' = "raised"
                       /\ UNCHANGED <<cleanup_paths, transcribe_paths, index>>
    /\ UNCHANGED <<request, signal_size, enhanced, stats, vad_flags, segments, attempted,
                   transcribed, pending, ffmpeg_path,
                   runtimeVars, profileVars, segmenterVars, detectorVars>>

\* after the loop: `if not transcribe_paths:` ... `else: cleanup_paths.append(temp_dir)`
PrepareEnd ==
    /\ stage = "write"
    /\ index > Len(segments)
    /\ IF transcribe_paths = <<>>
       THEN /\ stats' = [stats EXCEPT !.segment_write_fallback = TRUE]
            /\ cleanup_paths' = <<>>
            /\ transcribe_paths' = <<AudioPath>>
            /\ attempted' = attempted \cup {TempDir}
            /\ \E removed \in BOOLEAN :
                   exists' = IF removed THEN exists \ {TempDir} ELSE exists
       ELSE /\ cleanup_paths' = Append(cleanup_paths, TempDir)
            /\ UNCHANGED <<stats, transcribe_paths, attempted, exists>>
    /\ stage' = "prepared"
    /\ UNCHANGED <<request, signal_size, enhanced, vad_flags, segments, index, created,
                   transcribed, pending, ffmpeg_path,
                   runtimeVars, profileVars, segmenterVars, detectorVars>>

\* _transcribe_audio enters its try block
TranscribeLoopBegin ==
    /\ stage = "prepared"
    /\ stage' = "transcribe"
    /\ index' = 1
    /\ UNCHANGED <<request, signal_size, enhanced, stats, vad_flags, segments,
                   transcribe_paths, cleanup_paths, created, exists, attempted,
                   transcribed, pending, ffmpeg_path,
                   runtimeVars, profileVars, segmenterVars, detectorVars>>

\* the file at a path handed to _transcribe_audio_single
WavAt(path) ==
    IF path = AudioPath THEN request.wav ELSE SegmentWav(segments[path[2] + 1])

\* _transcribe_audio_single for one path: _refresh_ffmpeg_capability finds
\* ffmpeg or not, transcribe() gives a text or raises
TranscribeSingle ==
    /\ stage = "transcribe"
    /\ index <= Len(transcribe_paths)
    /\ LET path == transcribe_paths[index]
       IN  \E loaded \in load_wav_pcm16_mono(WavAt(path)),
              found \in BOOLEAN, ndarray_support \in BOOLEAN,
              text \in BOOLEAN :
               LET input == prepare_transcribe_input(WavAt(path).suffix_wav, loaded,
                                                     found, ndarray_support)
               IN  /\ ffmpeg_path' = found
                   /\ IF input.error_code = None /\ text
                      THEN /\ transcribed' =
                                  Append(transcribed,
                                         [path |-> path,
                                          requires_ffmpeg |-> input.requires_ffmpeg])
                           /\ index' = index + 1
                           /\ UNCHANGED <<stage, pending>>
                      ELSE /\ stage' = "cleanup"
                           /\ pending' = "raised"
                           /\ UNCHANGED <<transcribed, index>>
    /\ UNCHANGED <<request, signal_size, enhanced, stats, vad_flags, segments,
                   transcribe_paths, cleanup_paths, created, exists, attempted,
                   runtimeVars, profileVars, segmenterVars, detectorVars>>

\* the loop over transcribe_paths is over: `return ASRProcessingResult(...)`
TranscribeLoopEnd ==
    /\ stage = "transcribe"
    /\ index > Len(transcribe_paths)
    /\ stage' = "cleanup"
    /\ pending' = "returned"
    /\ UNCHANGED <<request, signal_size, enhanced, stats, vad_flags, segments, index,
                   transcribe_paths, cleanup_paths, created, exists, attempted,
                   transcribed, ffmpeg_path,
                   runtimeVars, profileVars, segmenterVars, detectorVars>>

Range(seq) == {seq[i] : i \in DOMAIN seq}

\* the finally block of _transcribe_audio: files are unlinked, then
\* directories removed; `stuck` are the paths whose removal fails
Cleanup ==
    /\ stage = "cleanup"
    /\ LET tracked == Range(cleanup_paths) \cap exists
           files == tracked \ {TempDir}
       IN  /\ attempted' = attempted \cup tracked
           /\ \E stuck \in SUBSET tracked :
                  LET left == exists \ (files \ stuck)
                  IN  exists' =
                          IF TempDir \in tracked \ stuck /\ left \subseteq {TempDir}
                          THEN left \ {TempDir}
                          ELSE left
    /\ stage' = pending
    /\ UNCHANGED <<request, signal_size, enhanced, stats, vad_flags, segments, index,
                   transcribe_paths, cleanup_paths, created, transcribed, pending,
                   ffmpeg_path,
                   runtimeVars, profileVars, segmenterVars, detectorVars>>

\* the caller has the result or the exception; the next call starts afresh
TranscribeAudioEnd ==
    /\ stage \in {"returned", "raised"}
    /\ stage' = "idle"
    /\ request' = [audio_config |-> NoConfig, wav |-> NoWav]
    /\ signal_size' = 0
    /\ enhanced' = NoSignal
    /\ stats' = StatsStart
    /\ vad_flags' = <<>>
    /\ segments' = <<>>
    /\ index' = 1
    /\ transcribe_paths' = <<>>
    /\ cleanup_paths' = <<>>
    /\ created' = {}
    /\ exists' = {}
    /\ attempted' = {}
    /\ transcribed' = <<>>
    /\ pending' = None
    /\ UNCHANGED <<ffmpeg_path, runtimeVars, profileVars, segmenterVars, detectorVars>>

PipelineNext ==
    \/ TranscribeAudioBegin
    \/ PrepareLoad
    \/ Enhance
    \/ Segment
    \/ WriteSegment
    \/ PrepareEnd
    \/ TranscribeLoopBegin
    \/ TranscribeSingle
    \/ TranscribeLoopEnd
    \/ Cleanup
    \/ TranscribeAudioEnd

\* calls of _transcribe_audio, one after the other
PipelineSpec == Init /\ [][PipelineNext]_vars

\* ------------------------------------------------ speech activity detector

\* aggressiveness_map[audio_config.noise_suppression_level]
aggressiveness_map(level) ==
    CASE level = "low" -> 0
      [] level = "moderate" -> 1
      [] level = "high" -> 2
      [] level = "veryhigh" -> 3

\* rms_gate_map.get(audio_config.low_volume_boost, -52.0)
rms_gate_map(boost) ==
    CASE boost = "low" -> -49
      [] boost = "medium" -> -52
      [] boost = "high" -> -55
      [] OTHER -> -52

\* int(_clamp_float(value, fallback, lower, upper)) for an integer or a
\* missing value: float(None) raises and the fallback is taken
clamp_float(value, fallback, lower, upper) ==
    Max(lower, Min(upper, IF value = Absent THEN fallback ELSE value[1]))

\* vad["aggressiveness"] as _audio_config_from_request stores it
VadConfigAggressiveness(payload) == Some(clamp_float(payload, 1, 0, 3))

\* requested_vad_aggressiveness in _prepare_audio_for_transcription
requested_vad_aggressiveness(audio_config_vad) ==
    Some(clamp_float(audio_config_vad, 1, 0, 3))

\* webrtc_aggressiveness in _detect_speech_frames
webrtc_aggressiveness(level, vad_aggressiveness) ==
    IF vad_aggressiveness # Absent
    THEN clamp_float(vad_aggressiveness, aggressiveness_map(level), 0, 3)
    ELSE aggressiveness_map(level)

\* allow_webrtc in _detect_speech_frames
allow_webrtc(call) ==
    /\ call.engine # "energy"
    /\ call.webrtcvad
    /\ \/ call.mode \in {"webrtc", "system_voice_processing"}
       \/ call.enhancement_version = "v2"

\* speech = rms_db >= rms_gate or peak_db >= peak_gate
EnergySpeech(frame, boost) ==
    \/ frame.rms_db >= rms_gate_map(boost)
    \/ frame.peak_db >= rms_gate_map(boost) + 8

\* the body of the loop with an except clause that keeps the detector
ClassifyFrameKeepsDetector(d, frame, boost, verdict, raises) ==
    LET i == Len(d.flags) + 1
    IN  IF d.detector # None
        THEN [d EXCEPT !.consulted = @ + 1,
                       !.webrtc_errors = IF raises THEN @ + 1 ELSE @,
                       !.failed_at = IF raises /\ @ = 0 THEN i ELSE @,
                       !.frame = frame,
                       !.flags = Append(@, ~raises /\ verdict),
                       !.classified_by = Append(@, IF raises THEN None ELSE "webrtcvad")]
        ELSE [d EXCEPT !.frame = frame,
                       !.flags = Append(@, EnergySpeech(frame, boost)),
                       !.classified_by = Append(@, "energy_gate")]

\* the body of `for frame in frames`: is_speech of the detector, if there is
\* one, answers `verdict` or raises; without a detector, or once it has raised,
\* the energy gate classifies the frame
ClassifyFrame(d, frame, boost, verdict, raises) ==
    LET i == Len(d.flags) + 1
    IN  IF d.detector # None /\ ~raises
        THEN [d EXCEPT !.consulted = @ + 1,
                       !.frame = frame,
                       !.flags = Append(@, verdict),
                       !.classified_by = Append(@, "webrtcvad")]
        ELSE [d EXCEPT !.consulted = IF d.detector # None THEN @ + 1 ELSE @,
                       !.webrtc_errors = IF d.detector # None THEN @ + 1 ELSE @,
                       !.failed_at = IF d.detector # None THEN i ELSE @,
                       !.detector = None,
                       !.backend = "energy_gate",
                       !.frame = frame,
                       !.flags = Append(@, EnergySpeech(frame, boost)),
                       !.classified_by = Append(@, "energy_gate")]

NoiseLevels == {"low", "moderate", "high", "veryhigh"}
Boosts == {"low", "medium", "high"}
\* vad.aggressiveness of the request: absent, or an integer
AggressivenessChoices == {Absent, Some(-1), Some(2), Some(5)}
\* rms and peak of a frame in dBFS: quiet, speech for the lowest rms gate
\* only, speech by its peak for the two lower gates, loud
FrameLevels ==
    {[rms_db |-> -70, peak_db |-> -60], [rms_db |-> -53, peak_db |-> -50],
     [rms_db |-> -60, peak_db |-> -42]}

\* the requests that reach the detector, whether webrtcvad was imported, and
\* the number of frames of the signal
DetectorCalls ==
    [noise_suppression_level : NoiseLevels, low_volume_boost : Boosts,
     aggressiveness : AggressivenessChoices, engine : {"webrtcvad", "energy"},
     mode : Modes \ {"off"}, enhancement_version : Versions,
     webrtcvad : BOOLEAN, frames : {0, MaxDetFrames}]

\* _detect_speech_frames up to its loop: webrtcvad.Vad(...) may raise
DetectSpeechFramesBegin ==
    /\ det_pc = "idle"
    /\ \E call \in DetectorCalls, raises \in BOOLEAN :
           LET given == webrtc_aggressiveness(
                            call.noise_suppression_level,
                            requested_vad_aggressiveness(
                                VadConfigAggressiveness(call.aggressiveness)))
               made == allow_webrtc(call) /\ ~raises
           IN  /\ det_call' = call
               /\ IF call.frames = 0
                  THEN /\ det_pc' = "returned"
                       /\ detection' = [DetectionStart EXCEPT !.backend = "none"]
                  ELSE /\ det_pc' = "loop"
                       /\ detection' =
                              [DetectionStart EXCEPT
                                  !.detector = IF made THEN "Vad" ELSE None,
                                  !.backend = IF made THEN "webrtcvad" ELSE "energy_gate",
                                  !.webrtc_aggressiveness =
                                      IF allow_webrtc(call) THEN Some(given) ELSE Absent]
    /\ UNCHANGED <<runtimeVars, profileVars, pipelineVars, segmenterVars>>

\* one turn of `for frame in frames`
DetectFrame ==
    /\ det_pc = "loop"
    /\ Len(detection.flags) < det_call.frames
    /\ \E frame \in FrameLevels, verdict \in BOOLEAN, raises \in BOOLEAN :
           detection' = ClassifyFrame(detection, frame, det_call.low_volume_boost,
                                      verdict, raises)
    /\ UNCHANGED <<det_pc, det_call, runtimeVars, profileVars, pipelineVars, segmenterVars>>

\* return flags, stats: stats["vad_backend"] is backend
DetectReturn ==
    /\ det_pc = "loop"
    /\ Len(detection.flags) = det_call.frames
    /\ det_pc' = "returned"
    /\ UNCHANGED <<det_call, detection, runtimeVars, profileVars, pipelineVars,
                   segmenterVars>>

\* the caller has taken the result
DetectDone ==
    /\ det_pc = "returned"
    /\ det_pc' = "idle"
    /\ det_call' = NoDetectorCall
    /\ detection' = DetectionStart
    /\ UNCHANGED <<runtimeVars, profileVars, pipelineVars, segmenterVars>>

DetectorNext == DetectSpeechFramesBegin \/ DetectFrame \/ DetectReturn \/ DetectDone

DetectorSpec == Init /\ [][DetectorNext]_vars

\* ---------------------------------------------------------------- time

\* time.monotonic() advances
Tick ==
    /\ last_active_age' =
          IF last_active_age + TickSeconds >= AgeCap THEN AgeCap
          ELSE last_active_age + TickSeconds
    /\ sched_past' = [s \in Style |-> sched_past[s] \/ pc[s] = "sleep"]
    /\ UNCHANGED <<pc, op, ntok, loading, state_lock, generation_lock,
                   modelVars, idle_timeout_seconds, advanced, newer>>
    /\ UNCHANGED <<shutdown, dataVars>>

\* ---------------------------------------------------------------- Next

RequestStep(t) ==
    \/ run_dictate(t)
    \/ run_ask(t)
    \/ run_translate(t)
    \/ run_asr_chunk(t)
    \/ stream_dictate(t)
    \/ stream_ask(t)
    \/ stream_translate(t)
    \/ stream_prepared_transcript(t)
    \/ AsrChunkDone(t)
    \/ TranscribeDone(t)
    \/ GenerateBegin(t)
    \/ GenerateLoaded(t)
    \/ GenerateToken(t)
    \/ SearchDone(t)
    \/ RunLlmSyncDone(t)
    \/ StreamEnsure(t)
    \/ StreamEnsureLoaded(t)
    \/ StreamDone(t)
    \/ GenerateRaises(t)
    \/ StreamClose(t)
    \/ RequestAborted(t)
    \/ StartStyleLearningTask(t)
    \/ set_idle_timeout(t)
    \/ health(t)
    \/ release_models(t)

StyleStep(s) ==
    \/ StyleCheck(s)
    \/ StyleGenerateBegin(s)
    \/ GenerateLoaded(s)
    \/ GenerateToken(s)
    \/ StyleGenerateDone(s)
    \/ StyleGenerateRaises(s)
    \/ StyleMerge(s)

WatchdogStep ==
    \/ WatchdogCheck
    \/ WatchdogRelease
    \/ WatchdogReleased

Next ==
    \/ \E t \in Req : RequestStep(t)
    \/ \E s \in Style : StyleStep(s)
    \/ WatchdogStep
    \/ Tick

Spec == Init /\ [][Next]_vars

\* the service from start() to the end of stop()
LifecycleNext ==
    \/ Next
    \/ stop

LifecycleSpec == Init /\ [][LifecycleNext]_vars

\* fairness: the watchdog thread, the clock and every thread that is inside a
\* request or a style task keep running; no new request is ever forced
Progress(t) ==
    \/ AsrChunkDone(t)
    \/ TranscribeDone(t)
    \/ GenerateBegin(t)
    \/ GenerateLoaded(t)
    \/ SearchDone(t)
    \/ RunLlmSyncDone(t)
    \/ StreamEnsure(t)
    \/ StreamEnsureLoaded(t)
    \/ StreamDone(t)
    \/ StartStyleLearningTask(t)
    \/ RequestAborted(t)
    \/ ReleaseEnd(t, "idle")

StyleProgress(s) ==
    \/ StyleCheck(s)
    \/ StyleGenerateBegin(s)
    \/ GenerateLoaded(s)
    \/ StyleGenerateDone(s)
    \/ StyleMerge(s)

FairSpec ==
    /\ Spec
    /\ WF_vars(WatchdogStep)
    /\ WF_vars(Tick)
    /\ \A t \in Req : WF_vars(Progress(t))
    /\ \A s \in Style : WF_vars(StyleProgress(s))

\* ============================================================== claims

\* a non-streaming request between the start of its audio pipeline and the end
\* of its generation
InNonStreamSection(t) ==
    \/ pc[t] = "transcribe" /\ op[t] \in NonStreamEntries
    \/ op[t] = "run" /\ pc[t] \in {"search_wait", "search_load", "search_gen",
                                    "gen_wait", "gen_load", "gen"}

\* a streaming request inside the with block of its entry point
InStreamPreparation(t) ==
    \/ pc[t] = "transcribe" /\ op[t] \in StreamEntries
    \/ op[t] = "stream" /\ pc[t] \in {"search_wait", "search_load", "search_gen",
                                       "ensure", "ensure_load"}

\* a streaming request inside _stream_generate_chat
InTokenProduction(t) == pc[t] \in {"stream_load", "stream_gen"}

\* C1: at most one thread is inside a generation call (between acquiring and
\* releasing the generation lock) at any instant
C1_AtMostOneGeneration ==
    Cardinality({t \in Req \cup Style : InGeneration(t)}) <= 1

\* C1 witness: a style-learning generation is running while a request waits
\* for the generation lock
C1_Witness ==
    \E s \in Style, t \in Req : pc[s] = "style_gen" /\ pc[t] \in WaitPcs

\* C2: whenever a generation call produces a token, no other generation call
\* is between its first token and its end: the tokens of two calls never
\* interleave
C2_TokensNotInterleaved ==
    [][\A t, u \in Req \cup Style :
          (t # u /\ ntok'[t] > ntok[t]) => ntok[u] = 0]_vars

\* C2 witness: a streaming response has produced tokens while a second
\* streaming request waits to generate
C2_Witness ==
    \E t, u \in Req : pc[t] = "stream_gen" /\ ntok[t] > 0 /\ pc[u] = "ready"

\* C3: whenever the watchdog clears loaded model handles, at that instant an
\* idle timeout is set and the time since last activity is at least the timeout
C3_EvictionOnlyWhenDue ==
    [][(WatchdogRelease /\ self_llm_model # None) =>
          /\ idle_timeout_seconds # {}
          /\ \A k \in idle_timeout_seconds : last_active_age >= k]_vars

\* C4: every write to the model handles is made by a thread that holds the
\* state lock at that moment (it owns the lock before or after the step it
\* writes in)
C4_HandleWritesUnderStateLock ==
    [][self_llm_model' # self_llm_model =>
          \E t \in state_lock \cup state_lock' : pc'[t] # pc[t]]_vars

\* C5: the last-active timestamp is refreshed on completion of the pipeline
\* run of run_asr_chunk and on completion of every generation call (request
\* generation, search-decision generation, style-learning generation)
C5_LastActiveRefreshed ==
    [][\A t \in Req \cup Style :
          (\/ (t \in Req /\ AsrChunkDone(t))
           \/ (pc[t] \in GenPcs /\ pc'[t] \notin GenPcs))
          => last_active_age' = 0]_vars

\* C6: no two non-streaming requests are at the same time between the start
\* of their audio pipeline and the end of their generation
C6_NonStreamingSerialized ==
    Cardinality({t \in Req : InNonStreamSection(t)}) <= 1

\* C6 witness: a non-streaming request is generating under the state lock
\* while the other request thread has nothing in progress
C6_Witness ==
    \E t, u \in Req :
        /\ t # u
        /\ pc[t] = "gen" /\ op[t] = "run" /\ ntok[t] > 0
        /\ state_lock = {t}
        /\ pc[u] = "idle"

\* C7: a streaming request holds the state lock during audio preprocessing,
\* prompt assembly and model-load-ensure, and does not hold it while it waits
\* for or produces its tokens
C7_StreamingLockScope ==
    \A t \in Req :
        /\ InStreamPreparation(t) => state_lock = {t}
        /\ (pc[t] = "ready" \/ InTokenProduction(t)) => t \notin state_lock

\* C7 witness: a streaming response is producing tokens while another request
\* holds the state lock
C7_Witness ==
    \E t, u \in Req :
        /\ t # u
        /\ pc[t] = "stream_gen" /\ ntok[t] > 0
        /\ state_lock = {u}

\* C8: while a request holds the state lock the model handles are not cleared,
\* and the watchdog's eviction holds the state lock from its clear to its end
C8_NoEvictionInsideCriticalSection ==
    /\ [][(state_lock \cap Req # {} /\ self_llm_model # None)
              => self_llm_model' # None]_vars
    /\ [](pc[WD] = "release" => state_lock = {WD})

\* C8 witness: the watchdog has decided to evict and waits while a request
\* holds the state lock with a model loaded
C8_Witness ==
    /\ pc[WD] = "evict"
    /\ self_llm_model # None
    /\ \E t \in Req : state_lock = {t} /\ InNonStreamSection(t)

\* C9: a request naming another LLM identity discards the loaded handles and
\* records the new identity; an ensure-model-loaded that returns without
\* calling load() returns handles of the recorded identity, and load() is
\* called for the recorded identity; health() reports the recorded identity
C9_ModelSwitch ==
    [][/\ llm_model_id' # llm_model_id => self_llm_model' = None
       /\ \A t \in Req \cup Style :
             (pc[t] \in WaitPcs \cup {"checked", "ensure"}
                 /\ pc'[t] # pc[t]
                 /\ pc'[t] \in GenPcs \cup {"ready"})
             => self_llm_model' = llm_model_id
       /\ \A t \in Req \cup Style :
             loading'[t] # loading[t] /\ loading'[t] # None
             => loading'[t] = llm_model_id
       /\ HealthReport.llm_model = llm_model_id]_vars

\* C10: with an idle timeout set and a model loaded, either the model is
\* unloaded or new activity refreshes the last-active timestamp
C10_IdleModelEventuallyUnloaded ==
    (idle_timeout_seconds # {} /\ self_llm_model # None /\ last_active_age > 0)
        ~> (self_llm_model = None \/ last_active_age = 0)

\* C10 witness: the watchdog has cleared the handles after the timeout
\* elapsed with no request in progress
C10_Witness ==
    /\ pc[WD] = "release"
    /\ self_llm_model = None
    /\ idle_timeout_seconds # {}
    /\ \A k \in idle_timeout_seconds : last_active_age >= k
    /\ \A t \in Req : pc[t] = "idle"

\* C11: a style-learning task goes on to its generation only if, at its check
\* under the state lock, the last-active timestamp has not advanced since the
\* task was scheduled and the time since last activity is at least the 20 s
\* grace; otherwise the task ends there, and nothing but a passed check leads
\* to the task's generation or to its write
C11_StyleLearningOnlyWhenIdle ==
    [][\A s \in Style :
          /\ (pc[s] = "sleep" /\ pc'[s] = "checked")
                => (~advanced[s] /\ last_active_age >= StyleLearningIdleGrace)
          /\ (pc[s] = "sleep" /\ pc'[s] # "sleep")
                => (pc'[s] \in {"checked", "free"}
                    /\ UNCHANGED <<generation_lock, ntok, loading, modelVars>>)
          /\ (pc'[s] \in {"style_load", "style_gen", "merge"} /\ pc[s] = "free")
                => FALSE]_vars

\* C12: no foreground generation call has reached the acquisition of the
\* generation lock while a style-learning generation holds the lock
C12_ForegroundNeverWaitsForStyle ==
    \A s \in Style, t \in Req :
        ~(generation_lock = {s} /\ pc[t] \in WaitPcs)

\* C14: once stop() has returned the model handles are released at that
\* moment, the watchdog thread has terminated, and the watchdog makes no
\* further idle check or eviction
C14_StoppedMeansTornDown ==
    /\ [][(pc[Main] # "stopped" /\ pc'[Main] = "stopped")
              => self_llm_model' = None]_vars
    /\ [](pc[Main] = "stopped" => pc[WD] = "done")
    /\ [][pc[Main] = "stopped" => pc'[WD] = pc[WD]]_vars

\* C13: the persisted rule list never has more than 20 entries nor a rule
\* twice, and a merge keeps the rules it found stored, in their order, ahead of
\* the rules it adds: every write of the list either clears it or extends it
C13_StyleRulesCappedAndOrdered ==
    /\ [](Len(style_rules) <= StyleRuleCap)
    /\ [](\A i, j \in DOMAIN style_rules : style_rules[i] = style_rules[j] => i = j)
    /\ [][merge_at' = "write"
            => /\ Len(style_rules) <= Len(profile_rules')
               /\ SubSeq(profile_rules', 1, Len(style_rules)) = style_rules]_vars
    /\ [][\/ style_rules' = <<>>
          \/ /\ Len(style_rules) <= Len(style_rules')
             /\ SubSeq(style_rules', 1, Len(style_rules)) = style_rules]_vars

\* C13 witness: the stored list is full and a merge is about to write a list
\* from which a rule of the model's answer, not stored before, was dropped
C13_Witness ==
    /\ merge_at = "write"
    /\ Len(style_rules) = StyleRuleCap
    /\ profile_rules = style_rules
    /\ \E i \in DOMAIN maybe_rules :
          /\ Strip(maybe_rules[i]) # Blank
          /\ ~Contains(profile_rules, Strip(maybe_rules[i]))

\* C15: when _transcribe_audio has returned or raised, unlink() or rmdir()
\* has been called on every file and directory that call created
C15_TempResourcesReleased ==
    stage \in {"returned", "raised"} => created \subseteq attempted

\* C16: a segment that cannot be written never ends the pipeline with an
\* exception: the loop over the segments goes on to the next one
C16_WriteFailureNeverPropagates ==
    [][stage = "write" => stage' # "raised"]_vars

BadInput(wav) == wav.container = "malformed" \/ wav.sample_width \notin {2, 3, 4}

Untouched(req) ==
    \/ ~(req.audio_config.present /\ req.audio_config.enabled)
    \/ req.audio_config.mode = "off"
    \/ /\ ~load_wav_as_mono_float32_16k(req.wav).raised
       /\ load_wav_as_mono_float32_16k(req.wav).size = 0

\* C19: when enhancement is disabled, the mode is off or the input decodes to
\* a zero-length signal, the pipeline's result is the original path alone with
\* nothing to clean up, no file or directory was created, and the pipeline
\* goes nowhere but to that result
C19_NoProcessingReturnsOriginalPath ==
    /\ []((stage = "prepared" /\ Untouched(request))
             => /\ transcribe_paths = <<AudioPath>>
                /\ cleanup_paths = <<>>
                /\ created = {}
                /\ attempted = {})
    /\ [][(stage = "prepare" /\ Untouched(request)) => stage' = "prepared"]_vars
    /\ [][(stage = "idle" /\ Untouched(request'))
              => stage' \in {"idle", "prepare", "prepared"}]_vars

\* C19 witness: an enabled pipeline returned for an input without samples
C19_Witness ==
    /\ stage = "prepared"
    /\ request.audio_config.enabled
    /\ request.wav.container = "ok"
    /\ stats.fallback_reason = "empty_audio"
    /\ transcribe_paths = <<AudioPath>>

\* C20: when the segmenter returns no segment, as it does for flags that are
\* all silence, the whole enhanced signal is the one segment and
\* segmentation_fallback is set; the pipeline then returns exactly one
\* transcribe unit if the signal has at least one frame of samples
C20_ZeroSegmentsFallback ==
    /\ [][(stage = "enhanced" /\ stage' = "write")
              => LET found == SegmentSizes(vad_flags', request.audio_config)
                 IN  /\ (\A i \in DOMAIN vad_flags' : ~vad_flags'[i]) => found = <<>>
                     /\ found = <<>> => /\ segments' = <<enhanced.size>>
                                        /\ stats'.segmentation_fallback
                     /\ found # <<>> => /\ segments' = found
                                        /\ ~stats'.segmentation_fallback]_vars
    /\ []((stage = "prepared" /\ stats.segmentation_fallback
              /\ enhanced.size >= frame_size)
             => transcribe_paths = <<SegmentPath(0)>>)

\* C20 witness: the pipeline returned one unit for a recording of silence
C20_Witness ==
    /\ stage = "prepared"
    /\ stats.segmentation_fallback
    /\ enhanced.size >= frame_size
    /\ vad_flags # <<>>
    /\ \A i \in DOMAIN vad_flags : ~vad_flags[i]
    /\ transcribe_paths = <<SegmentPath(0)>>

\* vad_flags[i - 1] of the call under way
Flag(i) == FlagAt(seg_call.runs, i)

\* the k flags up to frame i are all silence
SilentBefore(i, k) == i >= k /\ \A j \in (i - k + 1)..i : ~Flag(j)

\* the loop takes a frame
TakesFrame == seg_pc = "loop" /\ frame_no' = frame_no + 1

\* the loop takes a frame that closes the segment in progress
ClosesBySilence == TakesFrame /\ segmenter.in_segment /\ ~segmenter'.in_segment

\* the loop takes a frame that completes max_segment_frames
SplitsByLength ==
    TakesFrame /\ segmenter.in_segment
               /\ Len(segmenter.current_frames) + 1 >= max_segment_frames

RECURSIVE TotalLength(_)
\* sum(segment.size for segment in segments)
TotalLength(segs) ==
    IF segs = <<>> THEN 0 ELSE Len(Head(segs)) * frame_size + TotalLength(Tail(segs))

Last(seq) == seq[Len(seq)]

\* C21: the segments _segment_by_vad returns are together no longer than
\* the frames it was given
C21_SegmentsWithinInput ==
    seg_pc = "returned"
        => TotalLength(segmenter.segments) <= NumFrames(seg_call.runs) * frame_size

\* C22: every segment in the list has at least 3 frames, 480 samples; when
\* a segment is closed by silence or the tail is flushed, a candidate of at
\* least 3 frames is appended and a shorter one is counted in
\* ignored_short_segments and not appended; a forced split appends 3000 frames
C22_SegmentsAtLeastThreeFrames ==
    /\ [](\A k \in DOMAIN segmenter.segments :
             Len(segmenter.segments[k]) * frame_size >= 480)
    /\ [][ClosesBySilence
              => LET n == Len(segmenter.current_frames) + 1
                     s == segmenter.silence_run + 1
                     candidate == Max(1, n - Max(0, s - 2))
                 IN  IF candidate >= 3
                     THEN /\ Len(segmenter'.segments) = Len(segmenter.segments) + 1
                          /\ Len(Last(segmenter'.segments)) = candidate
                          /\ segmenter'.ignored_short_segments =
                                 segmenter.ignored_short_segments
                     ELSE /\ segmenter'.segments = segmenter.segments
                          /\ segmenter'.ignored_short_segments =
                                 segmenter.ignored_short_segments + 1]_vars
    /\ [][(seg_pc = "loop" /\ seg_pc' = "returned")
              => LET candidate == Len(segmenter.current_frames)
                 IN  IF candidate >= 3
                     THEN /\ segmenter'.segments =
                                 Append(segmenter.segments, segmenter.current_frames)
                          /\ segmenter'.ignored_short_segments =
                                 segmenter.ignored_short_segments
                     ELSE /\ segmenter'.segments = segmenter.segments
                          /\ segmenter'.ignored_short_segments =
                                 segmenter.ignored_short_segments
                                 + (IF candidate = 0 THEN 0 ELSE 1)]_vars

\* C22 witness: a call returned a segment after it had dropped a short one
C22_Witness ==
    /\ seg_pc = "returned"
    /\ segmenter.ignored_short_segments > 0
    /\ segmenter.segments # <<>>

\* flags that are a run of speech, a run of silence and a run of speech, the
\* speech of at least 3 frames and the silence of at least the exit threshold
TwoBursts(call) ==
    /\ Len(call.runs) = 3
    /\ call.runs[1].speech
    /\ call.runs[1].frames >= enter_speech_frames
    /\ call.runs[3].frames >= enter_speech_frames
    /\ call.runs[2].frames >= base_exit_silence_frames(call.anti_cutoff_pause_ms)

\* the first frame of a segment entered at frame `trigger`
FirstWithPreRoll(trigger, call) == Max(1, trigger - pre_roll_frames(call.pre_roll_ms) + 1)

\* C23: for two runs of speech of at least 3 frames around a run of silence
\* of at least the exit threshold, the call returns exactly two segments, in
\* the order of the input, each starting with the pre-roll before the frame
\* that entered it, the first ending in the silence and the second at the end
C23_TwoBurstsTwoSegments ==
    (seg_pc = "returned" /\ TwoBursts(seg_call))
        => LET a == seg_call.runs[1].frames
               g == seg_call.runs[2].frames
               segs == segmenter.segments
           IN  /\ Len(segs) = 2
               /\ Head(segs[1]) = FirstWithPreRoll(enter_speech_frames, seg_call)
               /\ Last(segs[1]) \in a..(a + g)
               /\ Head(segs[2]) = FirstWithPreRoll(a + g + enter_speech_frames, seg_call)
               /\ Last(segs[2]) = NumFrames(seg_call.runs)

\* C26: an idle segmenter enters in_segment at a frame exactly when that
\* frame and the two before it are speech and were all taken since it was
\* last in a segment; a silence frame taken while idle sets speech_run to 0,
\* and in_segment is entered in no other way
C26_EntersOnThirdSpeechFrame ==
    /\ [][(TakesFrame /\ ~segmenter.in_segment)
              => LET i == frame_no'
                 IN  /\ segmenter'.in_segment
                            <=> /\ i - 2 >= idle_from
                                /\ \A j \in (i - 2)..i : Flag(j)
                     /\ ~Flag(i) => segmenter'.speech_run = 0]_vars
    /\ [][(~segmenter.in_segment /\ segmenter'.in_segment) => TakesFrame]_vars

\* C26 witness: in a segment again, entered after an earlier one was closed
C26_Witness ==
    /\ seg_pc = "loop"
    /\ segmenter.in_segment
    /\ idle_from > 1
    /\ frame_no = idle_from + 2

\* C27 as stated: a segment is closed by silence only after as many silence
\* frames in a row as the exit threshold clamp(round(hangover_ms/10), 20, 120)
C27_ClosedOnlyAfterHangover ==
    [][ClosesBySilence
          => SilentBefore(frame_no',
                          base_exit_silence_frames(seg_call.anti_cutoff_pause_ms))]_vars

\* C27: a segment is closed by silence only when silence_run has reached
\* the threshold in effect, which is clamp(round(hangover_ms/10), 20, 120)
\* unless the 60 most recent flags are all silence and is the fast-exit value
\* then; the frames silence_run counts are silence, and fewer silence frames in
\* a row than the smaller of the exit threshold and 60 never close a segment
C27_ClosedOnlyAtEffectiveThreshold ==
    /\ [][ClosesBySilence
              => LET i == frame_no'
                     s == segmenter.silence_run + 1
                     base == base_exit_silence_frames(seg_call.anti_cutoff_pause_ms)
                     threshold == IF SilentBefore(i, adaptive_window_frames)
                                  THEN adaptive_min_exit_frames(base) ELSE base
                 IN  /\ s >= threshold
                     /\ SilentBefore(i, s)
                     /\ SilentBefore(i, Min(base, adaptive_window_frames))]_vars
    /\ \A ms \in 100..1200 :
          base_exit_silence_frames(ms) = clamp(RoundHalfEven(ms, 10), 20, 120)

\* C27 witness: a segment was closed after 60 frames of silence although the
\* exit threshold is above 60
C27_Witness ==
    /\ seg_pc = "loop"
    /\ ~segmenter.in_segment
    /\ idle_from = frame_no + 1
    /\ SilentBefore(frame_no, adaptive_window_frames)
    /\ ~SilentBefore(frame_no, adaptive_window_frames + 1)
    /\ base_exit_silence_frames(seg_call.anti_cutoff_pause_ms) > adaptive_window_frames

\* C28: at a frame taken in a segment that is not split there, the fast-exit
\* threshold is in effect (and counted in adaptive_fast_exit_hits) exactly when
\* the 60 most recent flags, this frame's included, are all silence, and the
\* segment is closed exactly when silence_run has reached the threshold in
\* effect; the fast-exit value is max(12, min(18, round(base/2))), lies in
\* 12..18 and is below the base threshold
C28_FastExitWhenWindowSilent ==
    /\ [][(TakesFrame /\ segmenter.in_segment /\ ~SplitsByLength)
              => LET i == frame_no'
                     s == IF Flag(i) THEN 0 ELSE segmenter.silence_run + 1
                     base == base_exit_silence_frames(seg_call.anti_cutoff_pause_ms)
                     fast == SilentBefore(i, adaptive_window_frames)
                     threshold == IF fast THEN Max(12, Min(18, RoundHalfEven(base, 2)))
                                  ELSE base
                 IN  /\ segmenter'.adaptive_fast_exit_hits =
                            segmenter.adaptive_fast_exit_hits + (IF fast THEN 1 ELSE 0)
                     /\ ~segmenter'.in_segment <=> s >= threshold]_vars
    /\ \A ms \in 100..1200 :
          LET base == base_exit_silence_frames(ms)
          IN  /\ adaptive_min_exit_frames(base) = Max(12, Min(18, RoundHalfEven(base, 2)))
              /\ adaptive_min_exit_frames(base) \in 12..18
              /\ adaptive_min_exit_frames(base) <= base

\* C28 witness: the fast-exit threshold was in effect at a frame of a segment
C28_Witness ==
    /\ seg_pc = "loop"
    /\ frame_no > 0
    /\ segmenter.adaptive_fast_exit_hits > 0
    /\ SilentBefore(frame_no, adaptive_window_frames)

\* C29: a segment closed by silence with n accumulated frames and silence
\* run s yields the first max(1, n - max(0, s - 2)) of them, at least one; when
\* that candidate is appended, its third frame from the end is speech, so that
\* no more than 2 frames of the closing silence are kept
C29_TrimmedOnExit ==
    [][ClosesBySilence
          => LET all == Append(segmenter.current_frames, frame_no')
                 s == segmenter.silence_run + 1
                 keep == Max(1, Len(all) - Max(0, s - 2))
             IN  /\ keep >= 1
                 /\ IF keep >= 3
                    THEN /\ segmenter'.segments =
                                Append(segmenter.segments, SubSeq(all, 1, keep))
                         /\ Flag(all[keep - 2])
                         /\ ~Flag(all[keep - 1]) /\ ~Flag(all[keep])
                    ELSE segmenter'.segments = segmenter.segments]_vars

\* C29 witness: a segment was closed and appended without the frames of
\* silence beyond the second
C29_Witness ==
    /\ seg_pc = "loop"
    /\ ~segmenter.in_segment
    /\ idle_from = frame_no + 1
    /\ frame_no > 0
    /\ segmenter.segments # <<>>
    /\ Last(Last(segmenter.segments)) < frame_no - 2

\* C30: the frame that brings the segment in progress to 3000 frames appends
\* it, adds one to forced_split_count and leaves the segmenter in a segment
\* with no accumulated frame; no segment in the list and no segment in
\* progress is ever longer than that
C30_ForcedSplitAtThirtySeconds ==
    /\ [][SplitsByLength
              => /\ segmenter'.segments =
                        Append(segmenter.segments,
                               Append(segmenter.current_frames, frame_no'))
                 /\ Len(Last(segmenter'.segments)) = 3000
                 /\ segmenter'.forced_split_count = segmenter.forced_split_count + 1
                 /\ segmenter'.in_segment
                 /\ segmenter'.current_frames = <<>>]_vars
    /\ [][segmenter'.forced_split_count > segmenter.forced_split_count
              => SplitsByLength]_vars
    /\ [](\A k \in DOMAIN segmenter.segments :
             Len(segmenter.segments[k]) * frame_size <= 30 * 16000)
    /\ [](Len(segmenter.current_frames) < 3000)

\* C30 witness: a segment of 30 s has just been split off
C30_Witness ==
    /\ seg_pc = "loop"
    /\ segmenter.in_segment
    /\ segmenter.current_frames = <<>>
    /\ segmenter.forced_split_count = 1
    /\ Len(Last(segmenter.segments)) = 3000

\* the loop takes a frame that enters a segment
EntersSegment == TakesFrame /\ ~segmenter.in_segment /\ segmenter'.in_segment

\* C31: the frame that enters a segment seeds it with the most recent frames
\* of the input up to and with that frame, as many as there are but not more
\* than round(preroll_ms/10) nor 50; pre_roll_hits goes up by one at an entry
\* that seeds more than 3 frames and changes at no other step of the loop
C31_SeededWithPreRoll ==
    /\ [][EntersSegment
              => LET i == frame_no'
                     seeded == segmenter'.current_frames
                 IN  /\ Len(seeded) <= RoundHalfEven(seg_call.pre_roll_ms, 10)
                     /\ Len(seeded) <= 50
                     /\ Len(seeded) = Min(i, pre_roll_frames(seg_call.pre_roll_ms))
                     /\ \A k \in DOMAIN seeded : seeded[k] = i - Len(seeded) + k
                     /\ segmenter'.pre_roll_hits =
                            segmenter.pre_roll_hits + (IF Len(seeded) > 3 THEN 1 ELSE 0)]_vars
    /\ [][(TakesFrame /\ ~EntersSegment)
              => segmenter'.pre_roll_hits = segmenter.pre_roll_hits]_vars

\* C31 witness: a segment has just been entered again, seeded with the full
\* pre-roll of 50 frames, and counted in pre_roll_hits
C31_Witness ==
    /\ seg_pc = "loop"
    /\ segmenter.in_segment
    /\ frame_no = idle_from + 2
    /\ Len(segmenter.current_frames) = 50
    /\ segmenter.pre_roll_hits >= 1

\* C32: when the loop ends with frames accumulated, they are appended as the
\* last segment if they are 3 frames or more, and counted in
\* ignored_short_segments if fewer; the segments before them stay
C32_TailFlushed ==
    [][(seg_pc = "loop" /\ seg_pc' = "returned" /\ segmenter.in_segment
           /\ segmenter.current_frames # <<>>)
          => IF Len(segmenter.current_frames) >= 3
             THEN /\ segmenter'.segments =
                         Append(segmenter.segments, segmenter.current_frames)
                  /\ segmenter'.ignored_short_segments = segmenter.ignored_short_segments
             ELSE /\ segmenter'.segments = segmenter.segments
                  /\ segmenter'.ignored_short_segments =
                         segmenter.ignored_short_segments + 1]_vars

\* C32 witness: the input ended in a segment and its frames were returned last
C32_Witness ==
    /\ seg_pc = "returned"
    /\ segmenter.in_segment
    /\ Len(segmenter.current_frames) >= 3
    /\ segmenter.segments # <<>>
    /\ Last(segmenter.segments) = segmenter.current_frames

\* C33: the three speech frames that make the segmenter enter a segment are
\* all among the frames the segment starts with
C33_OnsetFramesKept ==
    [][EntersSegment
          => \A j \in (frame_no' - 2)..frame_no' :
                 \E k \in DOMAIN segmenter'.current_frames :
                     segmenter'.current_frames[k] = j]_vars

\* C34: the segments returned are in the order of the input and share no
\* frame: each starts after the frame the one before it ends with
C34_SegmentsDisjoint ==
    \A k \in 1..(Len(segmenter.segments) - 1) :
        Last(segmenter.segments[k]) < Head(segmenter.segments[k + 1])

\* C24: once is_speech has raised at a frame, that frame and every later
\* one is classified by the energy gate, with the flag the gate gives it;
\* there is no detector any more and is_speech is not called again; the
\* backend is "energy_gate" from then on and in the stats returned
C24_EngineFailureIsPermanent ==
    /\ [](detection.failed_at > 0
            => /\ detection.detector = None
               /\ detection.backend = "energy_gate"
               /\ detection.webrtc_errors = 1
               /\ \A i \in detection.failed_at..Len(detection.flags) :
                      detection.classified_by[i] = "energy_gate"
               /\ Last(detection.flags)
                     = EnergySpeech(detection.frame, det_call.low_volume_boost))
    /\ [][(detection.failed_at > 0 /\ det_pc' # "idle")
              => /\ detection'.consulted = detection.consulted
                 /\ detection'.failed_at = detection.failed_at
                 /\ SubSeq(detection'.flags, 1, Len(detection.flags)) = detection.flags]_vars
    /\ [](detection.consulted > 0
            => \A i \in DOMAIN detection.flags :
                   detection.classified_by[i] = "webrtcvad"
                       <=> (detection.failed_at = 0 \/ i < detection.failed_at))

\* C24 witness: a call returned after the engine had classified a frame, had
\* failed at the next and a further frame had been taken
C24_Witness ==
    /\ det_pc = "returned"
    /\ detection.failed_at = 2
    /\ Len(detection.flags) > detection.failed_at
    /\ detection.backend = "energy_gate"

\* C25: the aggressiveness given to webrtcvad.Vad is the one mapped from the
\* noise suppression level when the request has no vad.aggressiveness, and
\* the request's value clamped to 0..3 otherwise
C25_AggressivenessFromNoiseLevel ==
    detection.webrtc_aggressiveness # Absent
        => detection.webrtc_aggressiveness[1] =
              IF det_call.aggressiveness = Absent
              THEN aggressiveness_map(det_call.noise_suppression_level)
              ELSE clamp(det_call.aggressiveness[1], 0, 3)

\* C35: every generation call starts to generate on handles that were loaded
\* for the identity recorded in llm_model_id at that moment
C35_GeneratesOnRecordedIdentity ==
    [][\A t \in Req \cup Style :
          (pc[t] \notin GenPcs /\ pc'[t] \in GenPcs)
              => self_llm_model' = llm_model_id']_vars

\* C36: the handles are never cleared by release_models (called by the
\* watchdog, by POST /release or by stop) while some thread holds the
\* generation lock
C36_NoReleaseDuringGeneration ==
    [][\A t \in Threads :
          (pc[t] # "release" /\ pc'[t] = "release" /\ self_llm_model # None)
              => generation_lock = {}]_vars

\* C37: a style task scheduled right after a request completed, with no
\* activity since and its sleep over before the clock advances a tick,
\* passes its check and goes on to the generation attempt; the sleep taking
\* in a tick or new activity arriving end the obligation
C37_StyleTaskEventuallyGenerates ==
    \A s \in Style :
        (pc[s] = "sleep" /\ last_active_age = 0 /\ ~advanced[s] /\ ~sched_past[s])
            ~> \/ pc[s] \in {"checked", "style_load", "style_gen"}
               \/ (pc[s] = "sleep" /\ (advanced[s] \/ sched_past[s]))

\* thread t is at a point where its next step takes the state lock, and does
\* not own it
WantsStateLock(t) ==
    /\ state_lock # {t}
    /\ \/ t \in Req /\ pc[t] \in {"idle", "schedule"}
       \/ t \in Style /\ pc[t] \in {"sleep", "merge"}
       \/ t = WD /\ pc[t] \in {"sleep", "evict"}
       \/ t = Main /\ pc[t] = "joined"

\* thread t has a step of its own to take
Runs(t) ==
    \/ t \in Req /\ ENABLED Progress(t)
    \/ t \in Style /\ ENABLED StyleProgress(t)
    \/ t = WD /\ ENABLED WatchdogStep
    \/ t = Main /\ ENABLED stop

\* C38: no thread asks for the state lock while it holds the generation lock,
\* and the two locks never block the runtime: every thread that holds a lock
\* has a step to take, or waits for the generation lock of a thread that has
C38_NoCircularWait ==
    /\ \A t \in Threads : generation_lock = {t} => ~WantsStateLock(t)
    /\ \A t \in state_lock \cup generation_lock :
          \/ Runs(t)
          \/ /\ pc[t] \in WaitPcs
             /\ \E u \in generation_lock : u # t /\ u \notin state_lock /\ Runs(u)

\* C38 witness: a request holds the state lock and waits for the generation
\* lock, which a streaming request holds while it produces tokens, and the
\* watchdog is about to ask for the state lock to evict
C38_Witness ==
    \E t, u \in Req :
        /\ state_lock = {t}
        /\ pc[t] = "gen_wait"
        /\ generation_lock = {u}
        /\ pc[u] = "stream_gen"
        /\ pc[WD] = "evict"

\* C39: the generation lock is held only by a thread inside a generation call
\* and is free when the call is left, by return, by an exception of load() or
\* of the token iterator, or by the close of a streaming response; a failed
\* try-acquire of the style task leaves the lock with its holder
C39_GenerationLockReleased ==
    /\ [](\A t \in Req \cup Style : generation_lock = {t} => InGeneration(t))
    /\ [][\A t \in Req \cup Style :
             (InGeneration(t) /\ pc'[t] \notin LoadPcs \cup GenPcs)
                 => generation_lock' = {}]_vars
    /\ [][\A s \in Style :
             (pc[s] = "checked" /\ pc'[s] = "free")
                 => /\ generation_lock # {}
                    /\ s \notin generation_lock
                    /\ generation_lock' = generation_lock]_vars

\* C39 witness: one request has failed in its generation call, the streaming
\* response of the other has been closed after a token, and the lock is free
C39_Witness ==
    \E t, u \in Req :
        /\ pc[t] = "closed"
        /\ pc[u] = "failed"
        /\ generation_lock = {}

TypeOK ==
    /\ state_lock \in {{}} \cup {{t} : t \in Threads}
    /\ generation_lock \in {{}} \cup {{t} : t \in Req \cup Style}
    /\ llm_model_id \in Models
    /\ self_llm_model \in Models \cup {None}
    /\ llm_model \in Models \cup {None}
    /\ idle_timeout_seconds \in TimeoutChoices
    /\ last_active_age \in 0..AgeCap
    /\ \A t \in Req \cup Style : ntok[t] \in 0..MaxTokens
    /\ shutdown \in BOOLEAN
    /\ \A s \in Style : newer[s] => advanced[s]
    /\ pc[Main] \in {"serving", "join", "joined", "release", "stopped"}
    /\ stage \in {"idle", "prepare", "loaded", "enhanced", "write", "prepared",
                  "transcribe", "cleanup", "returned", "raised"}
    /\ request.audio_config \in AudioConfigs
    /\ request.wav \in Wavs
    /\ exists \subseteq created
    /\ attempted \subseteq created
    /\ Range(cleanup_paths) \subseteq created
    /\ index \in 1..(Len(segments) + Len(transcribe_paths) + 1)
    /\ seg_pc \in {"idle", "loop", "returned"}
    /\ det_pc \in {"idle", "loop", "returned"}
    /\ det_call \in DetectorCalls \cup {NoDetectorCall}
    /\ Len(detection.flags) <= det_call.frames
    /\ Len(detection.classified_by) = Len(detection.flags)
    /\ detection.webrtc_aggressiveness \in {Absent} \cup {Some(a) : a \in 0..3}
    /\ frame_no \in 0..NumFrames(seg_call.runs)
    /\ Len(segmenter.recent_flags) <= adaptive_window_frames
    /\ Len(segmenter.pre_roll) <= 50

====
